---- MODULE Spec2Model ----
(***************************************************************************)
(* Model of The-Method, a client-side search-term randomizer.              *)
(*                                                                         *)
(*  - the page (src/src/routes/+page.svelte): the catalog, the genre /     *)
(*    name / age filter state, the reactive eligible set                   *)
(*    activeSearchTerms, the random selection and the Find Videos handler; *)
(*  - the renderer (src/unnamed/part_000): parseRangeConstraint,           *)
(*    getRandomInt and generateSpecifierValue.                             *)
(*                                                                         *)
(* JavaScript strings are sequences of one-character strings, so that      *)
(* includes / replace / padStart / split are computed as the code does.    *)
(***************************************************************************)
EXTENDS Integers, Sequences, FiniteSets, TLC

(***************************************************************************)
(* Bounds of the model.                                                    *)
(***************************************************************************)
\* Math.random() is drawn from k/NumRand (k in 0..NumRand-1) and 0.999.
NumRand == 3

(***************************************************************************)
(* Strings.                                                                *)
(***************************************************************************)
Digits == <<"0", "1", "2", "3", "4", "5", "6", "7", "8", "9">>

DigitChars == {Digits[i] : i \in 1..10}

\* value of a decimal digit character
DigitVal(c) == (CHOOSE i \in 1..10 : Digits[i] = c) - 1

\* the value JavaScript gives a missing array element or field
Undefined == <<"undefined">>

\* NaN, the result of parseInt on text with no leading digit
NaN == -999999

RECURSIVE NatToStr(_)
NatToStr(n) ==
    IF n < 10 THEN <<Digits[n + 1]>>
    ELSE NatToStr(n \div 10) \o <<Digits[(n % 10) + 1]>>

\* String(n) for an integer or NaN
NumToStr(n) ==
    IF n = NaN THEN <<"N", "a", "N">>
    ELSE IF n < 0 THEN <<"-">> \o NatToStr(0 - n)
    ELSE NatToStr(n)

\* s.padStart(width, '0')
RECURSIVE PadStart(_, _)
PadStart(s, width) ==
    IF Len(s) >= width THEN s ELSE PadStart(<<"0">> \o s, width)

\* index of the first occurrence of sub in s, 0 when there is none
IndexOf(s, sub) ==
    LET starts == {i \in 1..(Len(s) - Len(sub) + 1) :
                      SubSeq(s, i, i + Len(sub) - 1) = sub}
    IN IF starts = {} THEN 0
       ELSE CHOOSE i \in starts : \A j \in starts : i <= j

\* s.includes(sub)
Includes(s, sub) == IndexOf(s, sub) # 0

\* s.replace(sub, rep): the first occurrence only
ReplaceFirst(s, sub, rep) ==
    LET i == IndexOf(s, sub)
    IN IF i = 0 THEN s
       ELSE SubSeq(s, 1, i - 1) \o rep \o SubSeq(s, i + Len(sub), Len(s))

\* the members of a sequence
Range(s) == {s[i] : i \in 1..Len(s)}

(***************************************************************************)
(* Math.random() and the helpers built on it.                              *)
(***************************************************************************)
RandDen == 1000

\* the values of Math.random() the model draws, as numerators over RandDen
RandNum == {(k * RandDen) \div NumRand : k \in 0..(NumRand - 1)} \cup {RandDen - 1}

\* Math.floor(r * n) for r = num / RandDen
FloorMul(num, n) == (num * n) \div RandDen

\* getRandomInt(min, max) with Math.random() = num / RandDen
getRandomInt(num, min, max) ==
    IF min = NaN \/ max = NaN THEN NaN
    ELSE FloorMul(num, max - min + 1) + min

\* getRandomElement(array) with Math.random() = num / RandDen
getRandomElement(num, array) ==
    IF Len(array) = 0 THEN Undefined ELSE array[FloorMul(num, Len(array)) + 1]

(***************************************************************************)
(* Dates.  A Date is held in local time: the number of its local day       *)
(* (days since 1970-01-01) and the seconds elapsed in that day.  The civil *)
(* fields are computed from the day number as the engine's calendar does.  *)
(***************************************************************************)
SecPerDay == 86400

\* day number of the civil date y-m-d (proleptic Gregorian calendar)
DaysFromCivil(y, m, d) ==
    LET yy  == IF m <= 2 THEN y - 1 ELSE y
        era == yy \div 400
        yoe == yy - era * 400
        mp  == IF m > 2 THEN m - 3 ELSE m + 9
        doy == (153 * mp + 2) \div 5 + d - 1
        doe == yoe * 365 + yoe \div 4 - yoe \div 100 + doy
    IN era * 146097 + doe - 719468

\* civil date [y, m, d] of a day number
CivilFromDays(z) ==
    LET zz  == z + 719468
        era == zz \div 146097
        doe == zz - era * 146097
        yoe == (doe - doe \div 1460 + doe \div 36524 - doe \div 146096) \div 365
        doy == doe - (365 * yoe + yoe \div 4 - yoe \div 100)
        mp  == (5 * doy + 2) \div 153
        d   == doy - (153 * mp + 2) \div 5 + 1
        m   == IF mp < 10 THEN mp + 3 ELSE mp - 9
    IN [y |-> IF m <= 2 THEN yoe + era * 400 + 1 ELSE yoe + era * 400,
        m |-> m, d |-> d]

\* Date.getFullYear(), getMonth() + 1, getDate(), getHours(), getMinutes(), getSeconds()
getFullYear(date) == CivilFromDays(date.day).y
getMonth1(date)   == CivilFromDays(date.day).m
getDate(date)     == CivilFromDays(date.day).d
getHours(date)    == date.tod \div 3600
getMinutes(date)  == (date.tod % 3600) \div 60
getSeconds(date)  == date.tod % 60

\* a date string "YYYY-MM-DD" is held as its three numbers; "" is NoDate
NoDate == [y |-> 0, m |-> 0, d |-> 0]

\* new Date("YYYY-MM-DD"): midnight UTC of that day, seen in the local zone
\* whose offset from UTC is zone hours
NewDateFromString(str, zone) ==
    LET utcDay == DaysFromCivil(str.y, str.m, str.d)
    IN IF zone >= 0 THEN [day |-> utcDay, tod |-> zone * 3600]
       ELSE [day |-> utcDay - 1, tod |-> SecPerDay + zone * 3600]

\* milliseconds since the epoch (getTime), in seconds
getTime(date, zone) == date.day * SecPerDay + date.tod - zone * 3600

\* Math.ceil(a / b) for b > 0
CeilDiv(a, b) == 0 - ((0 - a) \div b)

Abs(a) == IF a < 0 THEN 0 - a ELSE a

\* date.setDate(n): day n of the month the date is in (n may be out of 1..31)
setDate(date, n) ==
    LET c == CivilFromDays(date.day)
    IN [date EXCEPT !.day = DaysFromCivil(c.y, c.m, 1) + n - 1]

(***************************************************************************)
(* Patterns of the catalog.                                                *)
(***************************************************************************)
Sep == <<"|", "|", "|">>

\* `${name}|||${specifier}`
Key(name, specifier) == name \o Sep \o specifier

tYYYY == <<"Y", "Y", "Y", "Y">>
tXX   == <<"X", "X">>
tNone == <<>>

Pattern(name, specifiers, genre, age) ==
    [name |-> name, specifiers |-> specifiers, genre |-> genre, age |-> age,
     constraints |-> <<>>, isCustom |-> FALSE,
     dateBefore |-> NoDate, dateAfter |-> NoDate, dateExact |-> NoDate]

PatA == Pattern(<<"A">>, <<tYYYY, tXX>>, "Cam", "new")
PatB == Pattern(<<"B">>, <<tNone>>, "NSFW", "old")
PatC == Pattern(<<"C">>, <<tXX>>, "Cam", "")
PatD == Pattern(<<"D">>, <<>>, "", "")
PatE == [Pattern(<<"E">>, <<tXX, tYYYY>>, "Cam", "old")
            EXCEPT !.dateBefore = [y |-> 2015, m |-> 3, d |-> 1]]

PatF == [Pattern(<<"F">>, <<tYYYY>>, "Misc", "new")
            EXCEPT !.constraints = << [type |-> "year", value |-> <<"2", "0", "3", "0">>] >>]

\* the static catalogs loadAllSearchTerms() may return
Catalogs == { <<PatA, PatB, PatC>>, <<PatA, PatC, PatD>>, <<PatE, PatC>>, <<PatF, PatC>> }

Ages == {"any", "new", "old"}

\* local zones of the browser, as hours east of UTC
Zones == {-5, 9}

\* values the date input may hold
DateInputs == {NoDate, [y |-> 2024, m |-> 1, d |-> 1]}

\* the clock: 2024-06-15 12:00:00 local time
Clock == [day |-> DaysFromCivil(2024, 6, 15), tod |-> 12 * 3600]

(***************************************************************************)
(* State of the page.                                                      *)
(***************************************************************************)
VARIABLES
    allSearchTerms,     \* the pool: the catalog (and the loaded custom terms)
    selectedGenres,     \* Set<string>
    genresInitialized,
    selectedNames,      \* Set of name|||specifier keys
    namesInitialized,
    selectedAge,        \* "any" | "new" | "old"
    enableDateOverride,
    beforeDate,         \* the date input: a date string or NoDate
    zone,               \* the browser's offset from UTC, in hours
    found,              \* what the last Find Videos click did
    nsfwSelected        \* history: the genre NSFW was selected at some time

pageVars == <<allSearchTerms, selectedGenres, genresInitialized, selectedNames,
              namesInitialized, selectedAge, enableDateOverride, beforeDate,
              zone, found, nsfwSelected>>

\* state of a call of the renderer
VARIABLES
    rSpecifier,       \* the template
    rPattern,         \* the pattern: its age and constraints are read
    rOverrideValue,   \* overrideValue, <<>> when none
    rOverrideDate,    \* overrideDate, NoOverride when none
    rOut,             \* the returned text and the values drawn for it
    rpc               \* "call" before the call, "done" after it

renderVars == <<rSpecifier, rPattern, rOverrideValue, rOverrideDate, rOut, rpc>>

\* state of the custom terms and of the import / export panel
VARIABLES
    customSearchTerms,  \* localStorage item 'customSearchTerms', as parsed
    enableUserTerms,
    selectedFile,       \* the content of the selected file, NoFile when none
    importStats,        \* NoStats or [success, failed]
    done                \* what the last handler of the panel did

storeVars == <<customSearchTerms, enableUserTerms, selectedFile, importStats, done>>

\* state of the settings object
VARIABLES
    enabledGenres,          \* Set<string>: empty means no genre filter
    enabledAges,            \* Set<'new' | 'old'>
    excludedPatternNames,   \* Set<string>
    gen,                    \* what the last call of generateSearchTerm returned
    disabledByCall,         \* genres disabled by disableGenre and not enabled since
    excludedByCall          \* names excluded by excludePattern and not included since

settingsVars == <<enabledGenres, enabledAges, excludedPatternNames, gen,
                  disabledByCall, excludedByCall>>

\* state of the search sink: the advanced settings switch and the tab opened
VARIABLES
    showAdvancedSettings,
    opened                  \* what the last window.open was called with

urlVars == <<showAdvancedSettings, opened>>

vars == <<pageVars, renderVars, storeVars, settingsVars, urlVars>>

(***************************************************************************)
(* Derived lists (reactive declarations).                                  *)
(***************************************************************************)
\* allGenres: the distinct non-empty genres of the pool.  Only its members
\* and its length are read, so the sorted array is held as a set.
AllGenresOf(terms) == {terms[i].genre : i \in 1..Len(terms)} \ {""}

\* an empty selection read as "match none"
GenreRejectsOnEmpty(pattern, genres) == pattern.genre \notin genres

\* the genre test shared by availableNames and activeSearchTerms:
\* TRUE when the pattern is rejected by the genre filter
GenreRejects(pattern, genres) ==
    Cardinality(genres) > 0 /\ pattern.genre \notin genres

\* availableNames: the displayKeys of the (name, specifier) pairs of the
\* patterns that pass the genre test
AvailableNamesOf(terms, genres) ==
    UNION { {Key(terms[i].name, terms[i].specifiers[j]) :
                j \in 1..Len(terms[i].specifiers)} :
            i \in {k \in 1..Len(terms) : ~GenreRejects(terms[k], genres)} }

\* an age test that lets a pattern of the opposite age through
AgeTestNoReject(pattern, age) ==
    IF age # "any" /\ pattern.age = "" THEN "accept" ELSE "next"

\* the age test of activeSearchTerms: "reject", "accept" (return true at
\* once, the name test is skipped) or "next" (go on to the name test)
AgeTest(pattern, age) ==
    IF age # "any"
    THEN IF pattern.age # "" /\ pattern.age # age THEN "reject"
         ELSE IF pattern.age = "" THEN "accept"
         ELSE "next"
    ELSE "next"

\* the name test of activeSearchTerms: TRUE when the pattern is rejected
NameRejects(pattern, names) ==
    /\ Cardinality(names) > 0
    /\ ~\E j \in 1..Len(pattern.specifiers) :
            Key(pattern.name, pattern.specifiers[j]) \in names

\* the callback of allSearchTerms.filter(...)
IsActive(pattern, genres, age, names) ==
    IF GenreRejects(pattern, genres) THEN FALSE
    ELSE IF AgeTest(pattern, age) = "reject" THEN FALSE
    ELSE IF AgeTest(pattern, age) = "accept" THEN TRUE
    ELSE IF NameRejects(pattern, names) THEN FALSE
    ELSE TRUE

ActiveOf(terms, genres, age, names) ==
    SelectSeq(terms, LAMBDA pattern : IsActive(pattern, genres, age, names))

allGenres         == AllGenresOf(allSearchTerms)
availableNames    == AvailableNamesOf(allSearchTerms, selectedGenres)
activeSearchTerms == ActiveOf(allSearchTerms, selectedGenres, selectedAge, selectedNames)

(***************************************************************************)
(* The one-time initialisations, run with the reactive declarations after  *)
(* every change of the state.                                              *)
(***************************************************************************)
\* selectedGenres after the flush
FlushGenres(terms, genres, gInit) ==
    IF Cardinality(AllGenresOf(terms)) > 0 /\ ~gInit
    THEN AllGenresOf(terms) \ {"NSFW"}
    ELSE genres

FlushGenresInit(terms, gInit) ==
    gInit \/ Cardinality(AllGenresOf(terms)) > 0

\* selectedNames after the flush (genres: selectedGenres after the flush)
FlushNames(terms, genres, names, nInit) ==
    IF Cardinality(AvailableNamesOf(terms, genres)) > 0 /\ ~nInit
    THEN AvailableNamesOf(terms, genres)
    ELSE names

FlushNamesInit(terms, genres, nInit) ==
    nInit \/ Cardinality(AvailableNamesOf(terms, genres)) > 0

\* the new filter state: terms, genres, names are the values the handler
\* assigned; the initialisation blocks then run
Flush(terms, genres, names) ==
    LET g == FlushGenres(terms, genres, genresInitialized)
    IN /\ allSearchTerms' = terms
       /\ selectedGenres' = g
       /\ genresInitialized' = FlushGenresInit(terms, genresInitialized)
       /\ selectedNames' = FlushNames(terms, g, names, namesInitialized)
       /\ namesInitialized' = FlushNamesInit(terms, g, namesInitialized)
       /\ nsfwSelected' = (nsfwSelected \/ "NSFW" \in g)

\* found is what the latest handler call did: "idle" (no alert, nothing
\* opened: every handler but Find Videos), "alert" (no eligible pattern: the
\* alert was shown, nothing opened) or "opened" (window.open was called with
\* the URL formatted from pattern, specifier, date and override)
Idle == [kind |-> "idle", pattern |-> PatD, specifier |-> Undefined,
         date |-> Clock, override |-> FALSE]

(***************************************************************************)
(* Handlers of the filter controls.                                        *)
(***************************************************************************)
toggleGenre(genre) ==
    /\ Flush(allSearchTerms,
             IF genre \in selectedGenres THEN selectedGenres \ {genre}
             ELSE selectedGenres \cup {genre},
             selectedNames)
    /\ found' = Idle
    /\ UNCHANGED <<selectedAge, enableDateOverride, beforeDate, zone>>

toggleSelectAll ==
    /\ Flush(allSearchTerms,
             IF Cardinality(selectedGenres) = Cardinality(allGenres) THEN {}
             ELSE allGenres,
             selectedNames)
    /\ found' = Idle
    /\ UNCHANGED <<selectedAge, enableDateOverride, beforeDate, zone>>

toggleName(displayKey) ==
    /\ Flush(allSearchTerms, selectedGenres,
             IF displayKey \in selectedNames THEN selectedNames \ {displayKey}
             ELSE selectedNames \cup {displayKey})
    /\ found' = Idle
    /\ UNCHANGED <<selectedAge, enableDateOverride, beforeDate, zone>>

toggleSelectAllNames ==
    /\ Flush(allSearchTerms, selectedGenres,
             IF Cardinality(selectedNames) = Cardinality(availableNames) THEN {}
             ELSE availableNames)
    /\ found' = Idle
    /\ UNCHANGED <<selectedAge, enableDateOverride, beforeDate, zone>>

handleAgeChange(value) ==
    /\ selectedAge' = value
    /\ Flush(allSearchTerms, selectedGenres, selectedNames)
    /\ found' = Idle
    /\ UNCHANGED <<enableDateOverride, beforeDate, zone>>

\* the "override date" checkbox (bind:checked)
setDateOverride(checked) ==
    /\ enableDateOverride' = checked
    /\ Flush(allSearchTerms, selectedGenres, selectedNames)
    /\ found' = Idle
    /\ UNCHANGED <<selectedAge, beforeDate, zone>>

\* the date input (bind:value)
setBeforeDate(value) ==
    /\ beforeDate' = value
    /\ Flush(allSearchTerms, selectedGenres, selectedNames)
    /\ found' = Idle
    /\ UNCHANGED <<selectedAge, enableDateOverride, zone>>

(***************************************************************************)
(* Random selection and the Find Videos handler.                           *)
(***************************************************************************)
\* a draw that does not look at the selected names
ValidSpecifiersAll(pattern, names) == pattern.specifiers

\* validSpecifiers of getRandomActiveSearchTerm
ValidSpecifiers(pattern, names) ==
    SelectSeq(pattern.specifiers, LAMBDA spec : Key(pattern.name, spec) \in names)

\* randomSpecifier: drawn among the valid ones, else specifiers[0]
RandomSpecifier(pattern, names, r) ==
    IF Len(ValidSpecifiers(pattern, names)) > 0
    THEN ValidSpecifiers(pattern, names)[FloorMul(r, Len(ValidSpecifiers(pattern, names))) + 1]
    ELSE IF Len(pattern.specifiers) > 0 THEN pattern.specifiers[1]
    ELSE Undefined

\* a draw from the whole pool instead of the active list
RandomPatternFromPool(r, active) ==
    allSearchTerms[FloorMul(r, Len(allSearchTerms)) + 1]

\* randomPattern: activeSearchTerms[Math.floor(Math.random() * activeSearchTerms.length)]
RandomPattern(r, active) == active[FloorMul(r, Len(active)) + 1]

\* randomDays as chosen from the age filter and the pattern's age
AgeRandomDays(pattern, age, r) ==
    IF age = "any"
    THEN IF pattern.age = "old" THEN FloorMul(r, 3650)
         ELSE IF pattern.age = "new" THEN FloorMul(r, 365)
         ELSE 0
    ELSE IF age = "old" THEN FloorMul(r, 3650)
    ELSE FloorMul(r, 365)

\* randomSpecDay(pattern): r1, r2 are the two values of Math.random()
randomSpecDay(pattern, age, today, tz, r1, r2) ==
    IF pattern.dateBefore # NoDate
    THEN LET constraintDate == NewDateFromString(pattern.dateBefore, tz)
             diffTime == Abs(getTime(today, tz) - getTime(constraintDate, tz))
             diffDays == CeilDiv(diffTime, SecPerDay)
         IN setDate(today, getDate(today) - FloorMul(r2, diffDays))
    ELSE IF pattern.dateAfter # NoDate
    THEN LET constraintDate == NewDateFromString(pattern.dateAfter, tz)
             diffTime == Abs(getTime(constraintDate, tz) - getTime(today, tz))
             diffDays == CeilDiv(diffTime, SecPerDay)
         IN setDate(today, getDate(constraintDate) + FloorMul(r2, diffDays))
    ELSE IF pattern.dateExact # NoDate
    THEN NewDateFromString(pattern.dateExact, tz)
    ELSE setDate(today, getDate(today) - AgeRandomDays(pattern, age, r1))

\* enableDateOverride && beforeDate
OverrideSupplied(enable, date) == enable /\ date # NoDate

\* a Find Videos that hands over the date input as if it were local time
FormattedDatesLocal(pattern) ==
    IF OverrideSupplied(enableDateOverride, beforeDate)
    THEN {[day |-> DaysFromCivil(beforeDate.y, beforeDate.m, beforeDate.d), tod |-> 0]}
    ELSE {randomSpecDay(pattern, selectedAge, Clock, zone, r1, r2) : r1, r2 \in RandNum}

\* the dates Find Videos may hand to formatSearchTermToURL
FormattedDates(pattern) ==
    IF OverrideSupplied(enableDateOverride, beforeDate)
    THEN {NewDateFromString(beforeDate, zone)}
    ELSE {randomSpecDay(pattern, selectedAge, Clock, zone, r1, r2) : r1, r2 \in RandNum}

handleFindVideos ==
    /\ IF Len(activeSearchTerms) = 0
       THEN found' = [Idle EXCEPT !.kind = "alert"]
       ELSE \E randomPattern \in {RandomPattern(rp, activeSearchTerms) : rp \in RandNum} :
                 \E randomSpecifier \in
                        {RandomSpecifier(randomPattern, selectedNames, rs) : rs \in RandNum},
                    formattedDate \in FormattedDates(randomPattern) :
                   found' = [kind |-> "opened",
                             pattern |-> randomPattern,
                             specifier |-> randomSpecifier,
                             date |-> formattedDate,
                             override |-> enableDateOverride]
    /\ UNCHANGED <<allSearchTerms, selectedGenres, genresInitialized, selectedNames,
                   namesInitialized, selectedAge, enableDateOverride, beforeDate, zone,
                   nsfwSelected>>

PageNext ==
    \/ \E genre \in allGenres : toggleGenre(genre)
    \/ toggleSelectAll
    \/ \E displayKey \in availableNames : toggleName(displayKey)
    \/ toggleSelectAllNames
    \/ \E value \in Ages : handleAgeChange(value)
    \/ \E checked \in BOOLEAN : setDateOverride(checked)
    \/ \E value \in DateInputs : setBeforeDate(value)
    \/ handleFindVideos

(***************************************************************************)
(* Properties of the filter and of the selection.                          *)
(***************************************************************************)
\* the patterns of the pool and the eligible ones
PoolPatterns   == Range(allSearchTerms)
ActivePatterns == Range(activeSearchTerms)

\* the three predicates as the specification words them
GenreOk(pattern) == selectedGenres = {} \/ pattern.genre \in selectedGenres
AgeOk(pattern)   == selectedAge = "any" \/ pattern.age = selectedAge \/ pattern.age = ""
SelectedKeys(pattern) ==
    {spec \in Range(pattern.specifiers) : Key(pattern.name, spec) \in selectedNames}
NameOk(pattern)  == selectedNames = {} \/ SelectedKeys(pattern) # {}

\* C1: whenever selectedNames is non-empty, every pattern of activeSearchTerms
\* has at least one specifier whose key name|||specifier is in selectedNames
C1_NameSpecifierPredicate ==
    selectedNames # {} =>
        \A pattern \in ActivePatterns : SelectedKeys(pattern) # {}

C3_AgePredicate ==
    \A pattern \in PoolPatterns :
        /\ (selectedAge = "any" /\ GenreOk(pattern) /\ NameOk(pattern))
              => pattern \in ActivePatterns
        /\ (selectedAge # "any" /\ pattern.age \notin {selectedAge, ""})
              => pattern \notin ActivePatterns
        /\ (selectedAge # "any" /\ pattern.age = selectedAge
                /\ GenreOk(pattern) /\ NameOk(pattern))
              => pattern \in ActivePatterns
        /\ (selectedAge # "any" /\ pattern.age = "" /\ GenreOk(pattern))
              => pattern \in ActivePatterns

\* C3 witness: mode 'new' rejects an 'old' pattern that passes the genre and
\* name tests and keeps a pattern of unspecified age
C3_Witness ==
    /\ selectedAge = "new"
    /\ \E pattern \in PoolPatterns :
          /\ pattern.age = "old" /\ GenreOk(pattern) /\ NameOk(pattern)
          /\ pattern \notin ActivePatterns
    /\ \E pattern \in ActivePatterns : pattern.age = ""

\* C4: a Find Videos click on an empty eligible set shows the alert, opens
\* nothing and leaves the pool and the filter state as they were; on a
\* non-empty eligible set it opens a URL for a member of the eligible set
C4_FilterExhaustion ==
    [][found'.kind # "idle" =>
         /\ UNCHANGED <<allSearchTerms, selectedGenres, selectedNames, selectedAge>>
         /\ Len(activeSearchTerms) = 0 => found'.kind = "alert"
         /\ Len(activeSearchTerms) > 0 =>
               (found'.kind = "opened" /\ found'.pattern \in ActivePatterns)
      ]_pageVars

\* C4 witness: a click found no eligible pattern
C4_Witness ==
    /\ found.kind = "alert"
    /\ Len(activeSearchTerms) = 0
    /\ Len(allSearchTerms) > 0

\* C5: the specifier returned with the chosen pattern is one of the
\* pattern's specifiers whose key is selected when there is one (and each of
\* them can be returned); only when there is none is it the first specifier
C5_SpecifierDraw ==
    /\ found.kind = "opened" =>
          IF SelectedKeys(found.pattern) # {}
          THEN found.specifier \in SelectedKeys(found.pattern)
          ELSE found.specifier =
                  IF Len(found.pattern.specifiers) > 0
                  THEN found.pattern.specifiers[1] ELSE Undefined
    /\ \A pattern \in ActivePatterns : \A spec \in SelectedKeys(pattern) :
          \E r \in RandNum : RandomSpecifier(pattern, selectedNames, r) = spec

\* C5 witness: the chosen pattern has two specifiers, only the second one is
\* selected, and it was returned
C5_Witness ==
    /\ found.kind = "opened"
    /\ Len(found.pattern.specifiers) = 2
    /\ SelectedKeys(found.pattern) = {found.pattern.specifiers[2]}
    /\ found.specifier = found.pattern.specifiers[2]

\* C6: when every listed genre and every listed (name, specifier) key is
\* selected and the age mode is 'any', the eligible set is the whole pool
C6_FullSelection ==
    (selectedGenres = allGenres /\ selectedNames = availableNames
        /\ selectedAge = "any")
      => activeSearchTerms = allSearchTerms

(***************************************************************************)
(* The custom terms: localStorage, the builder form, import and export.    *)
(***************************************************************************)
\* the stored list is capped at MaxStore terms
MaxStore == 2

\* the JSON value null, an absent array-valued property and an absent
\* string-valued property (genre, age) of a parsed object
Null     == <<"null">>
NoList   == << <<"no list">> >>
UndefStr == "undefined"

\* String.prototype.trim()
RECURSIVE TrimStart(_)
TrimStart(s) == IF Len(s) > 0 /\ Head(s) = " " THEN TrimStart(Tail(s)) ELSE s

RECURSIVE TrimEnd(_)
TrimEnd(s) ==
    IF Len(s) > 0 /\ s[Len(s)] = " " THEN TrimEnd(SubSeq(s, 1, Len(s) - 1)) ELSE s

trim(s) == TrimEnd(TrimStart(s))

\* truthiness of a string-valued property (a sequence of characters)
Truthy(v) == v # Undefined /\ v # Null /\ Len(v) > 0

\* a || b on string-valued properties
OrElse(a, b) == IF Truthy(a) THEN a ELSE b

\* array[k - 1] of a JavaScript array: undefined beyond its length
At(array, k) == IF k <= Len(array) THEN array[k] ELSE Undefined

\* JSON.stringify of an array: undefined is written as null
StringifyArray(array) ==
    IF array = NoList THEN NoList
    ELSE [i \in 1..Len(array) |-> IF array[i] = Undefined THEN Null ELSE array[i]]

\* JSON.stringify of a term followed by JSON.parse: a property whose value is
\* undefined is left out (it reads as undefined again), undefined inside an
\* array comes back as null
JSONTerm(term) ==
    [term EXCEPT !.specifiers = StringifyArray(@), !.constraint = StringifyArray(@)]

\* JSON.parse(JSON.stringify(terms))
JSONTerms(terms) == [i \in 1..Len(terms) |-> JSONTerm(terms[i])]

\* developSearchTerm(name, specifiers, genre, age, constraint)
developSearchTerm(name, specifiers, genre, age, constraint) ==
    [name |-> name, genre |-> genre, age |-> age, specifiers |-> specifiers,
     constraint |-> constraint, isCustom |-> TRUE]

\* the contents a file may have: text that is not JSON, a JSON value that is
\* not an array, or a JSON array of items
NoFile       == [kind |-> "none",  items |-> <<>>]
TextFile     == [kind |-> "text",  items |-> <<>>]
ValueFile    == [kind |-> "value", items |-> <<>>]
ArrayFile(items) == [kind |-> "array", items |-> items]

\* an item of the array: an object, null, or a number (a property read on a
\* number is undefined, on null it throws)
NoTerm == [name |-> Undefined, genre |-> UndefStr, age |-> UndefStr,
           specifiers |-> NoList, constraint |-> NoList, isCustom |-> FALSE]

ObjectItem(term) == [kind |-> "object", term |-> term]
NullItem         == [kind |-> "null",   term |-> NoTerm]
NumberItem       == [kind |-> "number", term |-> NoTerm]

NoStats == [success |-> -1, failed |-> -1]

\* done: the handler that ran last, the alert it showed and the file it
\* made the browser download
Did(op, alert) == [op |-> op, alert |-> alert, file |-> NoFile]

\* loadCustomTermsIntoPool(), removeCustomTermsFromPool(): the new pool
removeCustomTermsFromPool(terms) == SelectSeq(terms, LAMBDA term : ~term.isCustom)

\* a load that does not remove the custom terms already in the pool
loadCustomTermsAppended(terms, customTerms) == terms \o customTerms

loadCustomTermsIntoPool(terms, customTerms) ==
    IF Len(customTerms) > 0 THEN removeCustomTermsFromPool(terms) \o customTerms
    ELSE removeCustomTermsFromPool(terms)

\* the pool after a handler wrote the stored list
ReloadedPool(terms, customTerms, enabled) ==
    IF enabled THEN loadCustomTermsIntoPool(terms, customTerms) ELSE terms

\* validateSearchPattern(term): "valid", "invalid", or "throw" when a
\* property of null is read
validateSearchPattern(item) ==
    LET term == item.term
        hasName == Truthy(term.name) /\ Len(trim(term.name)) > 0
        hasSpecifiers ==
            /\ term.specifiers # NoList
            /\ \E i \in 1..Len(term.specifiers) :
                  Truthy(term.specifiers[i]) /\ Len(trim(term.specifiers[i])) > 0
    IN IF item.kind = "null" THEN "throw"
       ELSE IF hasName \/ hasSpecifiers THEN "valid"
       ELSE "invalid"

\* one of the items throws: the catch block ends the import
Throws(items) == \E i \in 1..Len(items) : validateSearchPattern(items[i]) = "throw"

ValidItems(items) ==
    SelectSeq(items, LAMBDA item : validateSearchPattern(item) = "valid")

InvalidItems(items) ==
    SelectSeq(items, LAMBDA item : validateSearchPattern(item) = "invalid")

\* a copy that leaves the flag as the file has it
AsImported(term) == term

\* { ...term, isCustom: true }
AsCustom(term) == [term EXCEPT !.isCustom = TRUE]

\* what an import did: the alert, the list written to localStorage (frozen
\* when nothing is written) and the new importStats
ImportFailed(alert, existing, stats) ==
    [alert |-> alert, wrote |-> FALSE, terms |-> existing, stats |-> stats]

\* a callback without the Array.isArray test: a value that is not an array
\* is read as an empty list
importSimpleUntested(file, existing, stats) ==
    IF file.kind = "text" \/ Throws(file.items)
    THEN ImportFailed("invalid JSON", existing, stats)
    ELSE [alert |-> "import complete", wrote |-> TRUE,
          terms |-> JSONTerms([i \in 1..Len(ValidItems(file.items)) |->
                                  AsCustom(ValidItems(file.items)[i].term)]),
          stats |-> [success |-> Len(ValidItems(file.items)),
                     failed  |-> Len(InvalidItems(file.items))]]

\* the onload callback of importSimple on the content of the selected file
importSimpleResult(file, existing, stats) ==
    LET valid == ValidItems(file.items)
        validTerms == [i \in 1..Len(valid) |-> AsCustom(valid[i].term)]
    IN IF file.kind = "text" THEN ImportFailed("invalid JSON", existing, stats)
       ELSE IF file.kind # "array" THEN ImportFailed("invalid format", existing, stats)
       ELSE IF Throws(file.items) THEN ImportFailed("invalid JSON", existing, stats)
       ELSE [alert |-> "import complete", wrote |-> TRUE,
             terms |-> JSONTerms(validTerms),
             stats |-> [success |-> Len(valid),
                        failed  |-> Len(InvalidItems(file.items))]]

\* Array.from(new Set(array)): the first occurrence of each element is kept
RECURSIVE Unique(_)
Unique(array) ==
    IF Len(array) = 0 THEN <<>>
    ELSE LET init == Unique(SubSeq(array, 1, Len(array) - 1))
             last == array[Len(array)]
         IN IF last \in Range(init) THEN init ELSE Append(init, last)

\* array || [] and constraint || ['', '']
OrEmptyList(array) == IF array = NoList THEN <<>> ELSE array
OrBlankPair(array) == IF array = NoList THEN << <<>>, <<>> >> ELSE array

\* existing.findIndex(name and age match): 0 when there is none
DuplicateIndex(existing, importedTerm) ==
    LET hits == {i \in 1..Len(existing) :
                    /\ existing[i].name = importedTerm.name
                    /\ existing[i].age = importedTerm.age}
    IN IF hits = {} THEN 0 ELSE CHOOSE i \in hits : \A j \in hits : i <= j

\* a list of specifiers that keeps the repetitions
CombinedSpecifiersRepeated(existingTerm, importedTerm) ==
    OrEmptyList(existingTerm.specifiers) \o OrEmptyList(importedTerm.specifiers)

CombinedSpecifiers(existingTerm, importedTerm) ==
    Unique(OrEmptyList(existingTerm.specifiers) \o OrEmptyList(importedTerm.specifiers))

\* the term written over the duplicate
MergedTerm(existingTerm, importedTerm) ==
    LET existingConstraint == OrBlankPair(existingTerm.constraint)
        importedConstraint == OrBlankPair(importedTerm.constraint)
    IN [name |-> existingTerm.name,
        specifiers |-> CombinedSpecifiers(existingTerm, importedTerm),
        genre |-> IF importedTerm.genre \notin {"", UndefStr}
                  THEN importedTerm.genre ELSE existingTerm.genre,
        age |-> existingTerm.age,
        constraint |-> << OrElse(At(importedConstraint, 1), At(existingConstraint, 1)),
                          OrElse(At(importedConstraint, 2), At(existingConstraint, 2)) >>,
        isCustom |-> TRUE]

\* one pass of importedTerms.forEach on a valid term
MergeOne(existing, importedTerm) ==
    LET duplicateIndex == DuplicateIndex(existing, importedTerm)
    IN IF duplicateIndex > 0
       THEN [existing EXCEPT ![duplicateIndex] = MergedTerm(@, importedTerm)]
       ELSE Append(existing, AsCustom(importedTerm))

\* importedTerms.forEach(...) over the valid items
RECURSIVE MergeEach(_, _)
MergeEach(existing, valid) ==
    IF Len(valid) = 0 THEN existing
    ELSE MergeEach(MergeOne(existing, Head(valid).term), Tail(valid))

\* the onload callback of importMerge
importMergeResult(file, existing, stats) ==
    IF file.kind = "text" THEN ImportFailed("invalid JSON", existing, stats)
    ELSE IF file.kind # "array" THEN ImportFailed("invalid format", existing, stats)
    ELSE IF Throws(file.items) THEN ImportFailed("invalid JSON", existing, stats)
    ELSE [alert |-> "import complete", wrote |-> TRUE,
          terms |-> JSONTerms(MergeEach(existing, ValidItems(file.items))),
          stats |-> [success |-> Len(ValidItems(file.items)),
                     failed  |-> Len(InvalidItems(file.items))]]

\* the part the two imports share: the file is read, the callback runs
Import(op, result) ==
    IF selectedFile = NoFile
    THEN /\ done' = Did(op, "select a file")
         /\ Flush(allSearchTerms, selectedGenres, selectedNames)
         /\ UNCHANGED <<customSearchTerms, enableUserTerms, selectedFile, importStats>>
    ELSE /\ Len(result.terms) <= MaxStore
         /\ customSearchTerms' = result.terms
         /\ importStats' = result.stats
         /\ Flush(IF result.wrote
                  THEN ReloadedPool(allSearchTerms, result.terms, enableUserTerms)
                  ELSE allSearchTerms,
                  selectedGenres, selectedNames)
         /\ done' = Did(op, result.alert)
         /\ UNCHANGED <<enableUserTerms, selectedFile>>

importSimple ==
    /\ Import("importSimple",
              importSimpleResult(selectedFile, customSearchTerms, importStats))
    /\ UNCHANGED <<selectedAge, enableDateOverride, beforeDate, zone, found>>

importMerge ==
    /\ Import("importMerge",
              importMergeResult(selectedFile, customSearchTerms, importStats))
    /\ UNCHANGED <<selectedAge, enableDateOverride, beforeDate, zone, found>>

\* the values of the constraint selector and two dates
cNone       == <<"n", "o", "n", "e">>
cBefore     == <<"b", "e", "f", "o", "r", "e">>
cAfter      == <<"a", "f", "t", "e", "r">>
cDate2020   == <<"2", "0", "2", "0", "-", "0", "1", "-", "0", "1">>
cDate2021   == <<"2", "0", "2", "1", "-", "0", "1", "-", "0", "1">>

\* saveSearchTerm() on the values of the builder form
saveSearchTerm(form) ==
    LET customName == form.name
        customSpecifiersList == form.specifiers
        customGenre == form.genre
        customAge == form.age
        customConstraintType == form.type
        customConstraintDate == form.date
        trimmed == [i \in 1..Len(customSpecifiersList) |-> trim(customSpecifiersList[i])]
        specifiersArray == SelectSeq(trimmed, LAMBDA s : Len(s) > 0)
        constraint == IF customConstraintType # cNone /\ Truthy(customConstraintDate)
                      THEN <<customConstraintType, customConstraintDate>>
                      ELSE << <<>>, <<>> >>
        searchTerm == developSearchTerm(customName, specifiersArray,
                                        IF customGenre = "" THEN "Custom" ELSE customGenre,
                                        customAge, constraint)
        existing == JSONTerms(Append(customSearchTerms, searchTerm))
    IN /\ IF Len(trim(customName)) = 0
          THEN /\ done' = Did("saveSearchTerm", "enter a name")
               /\ Flush(allSearchTerms, selectedGenres, selectedNames)
               /\ UNCHANGED customSearchTerms
          ELSE IF Len(specifiersArray) = 0
          THEN /\ done' = Did("saveSearchTerm", "enter a specifier")
               /\ Flush(allSearchTerms, selectedGenres, selectedNames)
               /\ UNCHANGED customSearchTerms
          ELSE /\ Len(customSearchTerms) < MaxStore
               /\ customSearchTerms' = existing
               /\ Flush(ReloadedPool(allSearchTerms, existing, enableUserTerms),
                        selectedGenres, selectedNames)
               /\ done' = Did("saveSearchTerm", "saved")
       /\ UNCHANGED <<enableUserTerms, selectedFile, importStats>>
       /\ UNCHANGED <<selectedAge, enableDateOverride, beforeDate, zone, found>>

\* the "use my custom terms" checkbox (bind:checked) and the reactive block
\* that loads or removes the custom terms
setEnableUserTerms(checked) ==
    /\ enableUserTerms' = checked
    /\ Flush(IF checked THEN loadCustomTermsIntoPool(allSearchTerms, customSearchTerms)
             ELSE removeCustomTermsFromPool(allSearchTerms),
             selectedGenres, selectedNames)
    /\ done' = Did("enableUserTerms", "none")
    /\ UNCHANGED <<customSearchTerms, selectedFile, importStats>>
    /\ UNCHANGED <<selectedAge, enableDateOverride, beforeDate, zone, found>>

\* handleFileSelect(event): file is the content of the chosen file
handleFileSelect(file) ==
    /\ selectedFile' = file
    /\ importStats' = NoStats
    /\ Flush(allSearchTerms, selectedGenres, selectedNames)
    /\ done' = Did("handleFileSelect", "none")
    /\ UNCHANGED <<customSearchTerms, enableUserTerms>>
    /\ UNCHANGED <<selectedAge, enableDateOverride, beforeDate, zone, found>>

\* the file exportCustomTerms() writes: JSON.stringify(customTerms, null, 2)
ExportedFile(customTerms) ==
    ArrayFile([i \in 1..Len(customTerms) |-> ObjectItem(JSONTerm(customTerms[i]))])

exportCustomTerms ==
    /\ done' = IF Len(customSearchTerms) = 0
               THEN Did("exportCustomTerms", "nothing to export")
               ELSE [op |-> "exportCustomTerms", alert |-> "exported",
                     file |-> ExportedFile(customSearchTerms)]
    /\ Flush(allSearchTerms, selectedGenres, selectedNames)
    /\ UNCHANGED <<customSearchTerms, enableUserTerms, selectedFile, importStats>>
    /\ UNCHANGED <<selectedAge, enableDateOverride, beforeDate, zone, found>>

\* deleteAllCustomTerms(): confirmed is the answer to confirm(...)
deleteAllCustomTerms(confirmed) ==
    /\ IF Len(customSearchTerms) = 0
       THEN /\ done' = Did("deleteAllCustomTerms", "nothing to delete")
            /\ Flush(allSearchTerms, selectedGenres, selectedNames)
            /\ UNCHANGED <<customSearchTerms, selectedFile, importStats>>
       ELSE IF confirmed
       THEN /\ customSearchTerms' = <<>>
            /\ Flush(removeCustomTermsFromPool(allSearchTerms),
                     selectedGenres, selectedNames)
            /\ importStats' = NoStats
            /\ selectedFile' = NoFile
            /\ done' = Did("deleteAllCustomTerms", "deleted")
       ELSE /\ done' = Did("deleteAllCustomTerms", "none")
            /\ Flush(allSearchTerms, selectedGenres, selectedNames)
            /\ UNCHANGED <<customSearchTerms, selectedFile, importStats>>
    /\ UNCHANGED enableUserTerms
    /\ UNCHANGED <<selectedAge, enableDateOverride, beforeDate, zone, found>>

\* the values typed into the builder form
Forms ==
    { [name |-> <<"A">>, specifiers |-> << <<"X", " ">> >>, genre |-> "", age |-> "new",
       type |-> cNone, date |-> cDate2020],
      [name |-> <<"A">>, specifiers |-> << <<"Y">>, <<" ">>, <<"Y">> >>, genre |-> "G",
       age |-> "new", type |-> cBefore, date |-> cDate2020],
      [name |-> <<" ">>, specifiers |-> << <<"X">> >>, genre |-> "", age |-> "",
       type |-> cNone, date |-> <<>>],
      [name |-> <<"B">>, specifiers |-> << <<" ">> >>, genre |-> "", age |-> "",
       type |-> cBefore, date |-> <<>>] }

\* items of the imported arrays
ItemA == ObjectItem([name |-> <<"A">>, genre |-> "", age |-> "new",
                     specifiers |-> << <<"X">>, <<"Z">> >>,
                     constraint |-> << <<>>, cDate2021 >>, isCustom |-> FALSE])
ItemNoName == ObjectItem([NoTerm EXCEPT !.specifiers = << <<"Z">>, <<"Z">> >>])
ItemBlank  == ObjectItem([NoTerm EXCEPT !.name = <<" ">>, !.specifiers = << <<>> >>])
ItemB == ObjectItem([name |-> <<"B">>, genre |-> "H", age |-> "old",
                     specifiers |-> NoList,
                     constraint |-> << cAfter >>, isCustom |-> FALSE])

\* the files the user may pick
Files ==
    { TextFile, ValueFile, ArrayFile(<<>>),
      ArrayFile(<<ItemA>>), ArrayFile(<<ItemNoName, ItemNoName>>),
      ArrayFile(<<ItemBlank, ItemA>>), ArrayFile(<<ItemA, NullItem>>),
      ArrayFile(<<NumberItem, ItemB>>), ArrayFile(<<ItemB, ItemA>>) }

\* a file the browser downloaded can be picked as well
PickableFiles == Files \cup (IF done.file # NoFile THEN {done.file} ELSE {})

StoreNext ==
    \/ \E form \in Forms : saveSearchTerm(form)
    \/ \E checked \in BOOLEAN : setEnableUserTerms(checked)
    \/ \E file \in PickableFiles : handleFileSelect(file)
    \/ importSimple
    \/ importMerge
    \/ exportCustomTerms
    \/ \E confirmed \in BOOLEAN : deleteAllCustomTerms(confirmed)

\* no custom term is stored and the panel is not used
StoreParked ==
    /\ customSearchTerms = <<>>
    /\ enableUserTerms = FALSE
    /\ selectedFile = NoFile
    /\ importStats = NoStats
    /\ done = Did("none", "none")

(***************************************************************************)
(* The renderer: parseRangeConstraint and generateSpecifierValue.          *)
(***************************************************************************)
\* value.split('-')
RECURSIVE Split(_)
Split(value) ==
    LET i == IndexOf(value, <<"-">>)
    IN IF i = 0 THEN <<value>>
       ELSE <<SubSeq(value, 1, i - 1)>> \o Split(SubSeq(value, i + 1, Len(value)))

HexLetters == <<"A", "B", "C", "D", "E", "F">>
HexLower   == <<"a", "b", "c", "d", "e", "f">>

\* /[A-Fa-f]/.test(value)
HasHexLetter(value) ==
    \E i \in 1..Len(value) : \E k \in 1..6 : value[i] = HexLetters[k] \/ value[i] = HexLower[k]

\* the value of character c as a digit of the base, -1 when it is none
CharVal(c, base) ==
    IF c \in DigitChars THEN DigitVal(c)
    ELSE IF base = 16 /\ \E k \in 1..6 : c = HexLetters[k] \/ c = HexLower[k]
    THEN 9 + (CHOOSE k \in 1..6 : c = HexLetters[k] \/ c = HexLower[k])
    ELSE -1

\* parseInt(text, base): the longest prefix of digits of the base, NaN when
\* the text starts with none (text has no sign, blank or 0x prefix here)
RECURSIVE ParseDigits(_, _, _)
ParseDigits(text, base, acc) ==
    IF Len(text) = 0 \/ CharVal(text[1], base) < 0 THEN acc
    ELSE ParseDigits(Tail(text), base, acc * base + CharVal(text[1], base))

parseInt(text, base) ==
    IF Len(text) = 0 \/ CharVal(text[1], base) < 0 THEN NaN
    ELSE ParseDigits(text, base, 0)

\* the result null of parseRangeConstraint
NoRange == [ok |-> FALSE, min |-> 0, max |-> 0]

parseRangeConstraint(value) ==
    LET parts == Split(value)
        base  == IF HasHexLetter(value) THEN 16 ELSE 10
    IN IF Len(parts) # 2 THEN NoRange
       ELSE [ok |-> TRUE, min |-> parseInt(parts[1], base), max |-> parseInt(parts[2], base)]

\* pattern.constraints.find(c => c.type is one of types): its index, 0 if none
FindConstraint(pattern, types) ==
    LET hits == {i \in 1..Len(pattern.constraints) : pattern.constraints[i].type \in types}
    IN IF hits = {} THEN 0 ELSE CHOOSE i \in hits : \A j \in hits : i <= j

months ==
    << <<"J", "a", "n", "u", "a", "r", "y">>,
       <<"F", "e", "b", "r", "u", "a", "r", "y">>,
       <<"M", "a", "r", "c", "h">>,
       <<"A", "p", "r", "i", "l">>,
       <<"M", "a", "y">>,
       <<"J", "u", "n", "e">>,
       <<"J", "u", "l", "y">>,
       <<"A", "u", "g", "u", "s", "t">>,
       <<"S", "e", "p", "t", "e", "m", "b", "e", "r">>,
       <<"O", "c", "t", "o", "b", "e", "r">>,
       <<"N", "o", "v", "e", "m", "b", "e", "r">>,
       <<"D", "e", "c", "e", "m", "b", "e", "r">> >>

\* the placeholder tokens of the if / else-if chain, in the order tested
tYMD_sp  == <<"Y", "Y", "Y", "Y", " ", "M", "M", " ", "D", "D">>
tYMD     == <<"Y", "Y", "Y", "Y", "M", "M", "D", "D">>
tYM_sp   == <<"Y", "Y", "Y", "Y", " ", "M", "M">>
tMonthDY == <<"M", "o", "n", "t", "h", " ", "D", "D", ",", " ", "Y", "Y", "Y", "Y">>
tHMS     == <<"H", "H", "M", "M", "S", "S">>

\* no override date was passed
NoOverride == [day |-> -1, tod |-> 0]

\* a local of generateSpecifierValue that was not assigned
Unset == -1

\* the branch of the chain the specifier takes
Branch(specifier) ==
    IF Includes(specifier, tYMD_sp) THEN "YYYY MM DD"
    ELSE IF Includes(specifier, tYMD) THEN "YYYYMMDD"
    ELSE IF Includes(specifier, tYM_sp) THEN "YYYY MM"
    ELSE IF Includes(specifier, tMonthDY) THEN "Month DD, YYYY"
    ELSE IF Includes(specifier, tYYYY) THEN "YYYY"
    ELSE IF Includes(specifier, tHMS) THEN "HHMMSS"
    ELSE "none"

CalendarBranches == {"YYYY MM DD", "YYYYMMDD", "YYYY MM", "Month DD, YYYY", "YYYY"}

\* a year that looks at the pattern's age before the override date
DateYearAgeFirst(age, overrideDate, now, r) ==
    IF age = "new" THEN getFullYear(now)
    ELSE IF overrideDate # NoOverride THEN getFullYear(overrideDate)
    ELSE IF age = "old" THEN getRandomInt(r, 2010, 2015)
    ELSE getRandomInt(r, 2010, getFullYear(now))

\* year, month (1..12) and day of the calendar branches
DateYear(age, overrideDate, now, r) ==
    IF overrideDate # NoOverride THEN getFullYear(overrideDate)
    ELSE IF age = "new" THEN getFullYear(now)
    ELSE IF age = "old" THEN getRandomInt(r, 2010, 2015)
    ELSE getRandomInt(r, 2010, getFullYear(now))

DateMonth(age, overrideDate, now, r) ==
    IF overrideDate # NoOverride THEN getMonth1(overrideDate)
    ELSE IF age = "new" THEN getMonth1(now)
    ELSE getRandomInt(r, 1, 12)

DateDay(age, overrideDate, now, r) ==
    IF overrideDate # NoOverride THEN getDate(overrideDate)
    ELSE IF age = "new" THEN getDate(now)
    ELSE getRandomInt(r, 1, 28)

\* Math.floor(a / b), a % b on a number that may be NaN
FloorDivN(a, b) == IF a = NaN THEN NaN ELSE a \div b
ModN(a, b)      == IF a = NaN THEN NaN ELSE a % b

\* hour, minute, second of the HHMMSS branch: [h, m, s]
ClockTime(pattern, overrideDate, rh, rm, rs) ==
    LET free == [h |-> getRandomInt(rh, 0, 23), m |-> getRandomInt(rm, 0, 59),
                 s |-> getRandomInt(rs, 0, 59)]
        k == FindConstraint(pattern, {"range", "time-range"})
    IN IF overrideDate # NoOverride
       THEN [h |-> getHours(overrideDate), m |-> getMinutes(overrideDate),
             s |-> getSeconds(overrideDate)]
       ELSE IF k # 0
       THEN LET range == parseRangeConstraint(pattern.constraints[k].value)
                randomTime == getRandomInt(rh, range.min, range.max)
            IN IF range.ok
               THEN [h |-> FloorDivN(randomTime, 10000),
                     m |-> FloorDivN(ModN(randomTime, 10000), 100),
                     s |-> ModN(randomTime, 100)]
               ELSE free
       ELSE free

Pad2(n) == PadStart(NumToStr(n), 2)

\* the text of the calendar or clock token of a branch
CalendarText(branch, year, month, day) ==
    IF branch = "YYYY MM DD"
    THEN NumToStr(year) \o <<" ">> \o Pad2(month) \o <<" ">> \o Pad2(day)
    ELSE IF branch = "YYYYMMDD" THEN NumToStr(year) \o Pad2(month) \o Pad2(day)
    ELSE IF branch = "YYYY MM" THEN NumToStr(year) \o <<" ">> \o Pad2(month)
    ELSE IF branch = "Month DD, YYYY"
    THEN months[month] \o <<" ">> \o NumToStr(day) \o <<",", " ">> \o NumToStr(year)
    ELSE NumToStr(year)

BranchToken(branch) ==
    IF branch = "YYYY MM DD" THEN tYMD_sp
    ELSE IF branch = "YYYYMMDD" THEN tYMD
    ELSE IF branch = "YYYY MM" THEN tYM_sp
    ELSE IF branch = "Month DD, YYYY" THEN tMonthDY
    ELSE IF branch = "YYYY" THEN tYYYY
    ELSE tHMS

\* xPatterns: the run of k placeholder characters, k digits
XPattern(digits) == [i \in 1..digits |-> "X"]

Pow10(digits) == IF digits = 1 THEN 10 ELSE IF digits = 2 THEN 100
                 ELSE IF digits = 3 THEN 1000 ELSE 10000

\* the range used by the numeric runs: rangeConstraint parsed, or NoRange
RunRange(pattern) ==
    LET k == FindConstraint(pattern, {"range"})
    IN IF k = 0 THEN NoRange ELSE parseRangeConstraint(pattern.constraints[k].value)

\* a draw that ignores the range constraint
RandomNumDefault(digits, range, r) == getRandomInt(r, 0, Pow10(digits) - 1)

\* randomNum of one pass of the while loop
RandomNum(digits, range, r) ==
    IF range.ok THEN getRandomInt(r, range.min, range.max)
    ELSE getRandomInt(r, 0, Pow10(digits) - 1)

\* the for / while loops over xPatterns: rs holds the values of
\* Math.random() still to be used, draws the values of randomNum so far
RECURSIVE XLoop(_, _, _, _, _)
XLoop(result, digits, range, rs, draws) ==
    IF digits = 0 THEN [result |-> result, draws |-> draws]
    ELSE IF Includes(result, XPattern(digits)) /\ Len(rs) > 0
    THEN LET randomNum == RandomNum(digits, range, Head(rs))
             paddedNum == PadStart(NumToStr(randomNum), digits)
         IN XLoop(ReplaceFirst(result, XPattern(digits), paddedNum), digits, range,
                  Tail(rs), Append(draws, randomNum))
    ELSE XLoop(result, digits - 1, range, rs, draws)

\* how many times the while loops run on a text
RECURSIVE NumDraws(_, _)
NumDraws(result, digits) ==
    IF digits = 0 THEN 0
    ELSE IF Includes(result, XPattern(digits))
    THEN 1 + NumDraws(ReplaceFirst(result, XPattern(digits), <<"0">>), digits)
    ELSE NumDraws(result, digits - 1)

\* the value '' returned for an empty specifier: nothing was drawn
RenderBlank == [result |-> <<>>, year |-> Unset, month |-> Unset, day |-> Unset,
                hour |-> Unset, minute |-> Unset, second |-> Unset, draws |-> <<>>]

\* generateSpecifierValue(specifier, pattern, overrideValue, overrideDate):
\* r holds the values of Math.random() of the calendar / clock branch
\* (r[1], r[2], r[3]), rs those of the numeric runs
generateSpecifierValue(specifier, pattern, overrideValue, overrideDate, now, r, rs) ==
    LET branch == Branch(specifier)
        year   == DateYear(pattern.age, overrideDate, now, r[1])
        month  == IF branch = "YYYY" THEN Unset
                  ELSE DateMonth(pattern.age, overrideDate, now, r[2])
        day    == IF branch \in {"YYYY", "YYYY MM"} THEN Unset
                  ELSE DateDay(pattern.age, overrideDate, now, r[3])
        time   == ClockTime(pattern, overrideDate, r[1], r[2], r[3])
        dated  == IF branch \in CalendarBranches
                  THEN ReplaceFirst(specifier, BranchToken(branch),
                                    CalendarText(branch, year, month, day))
                  ELSE IF branch = "HHMMSS"
                  THEN ReplaceFirst(specifier, tHMS,
                                    Pad2(time.h) \o Pad2(time.m) \o Pad2(time.s))
                  ELSE specifier
        runs   == XLoop(dated, 4, RunRange(pattern), rs, <<>>)
    IN IF Len(overrideValue) > 0 THEN [RenderBlank EXCEPT !.result = overrideValue]
       ELSE IF Len(specifier) = 0 THEN RenderBlank
       ELSE [result |-> runs.result,
             year   |-> IF branch \in CalendarBranches THEN year ELSE Unset,
             month  |-> IF branch \in CalendarBranches THEN month ELSE Unset,
             day    |-> IF branch \in CalendarBranches THEN day ELSE Unset,
             hour   |-> IF branch = "HHMMSS" THEN time.h ELSE Unset,
             minute |-> IF branch = "HHMMSS" THEN time.m ELSE Unset,
             second |-> IF branch = "HHMMSS" THEN time.s ELSE Unset,
             draws  |-> runs.draws]

\* templates of the renderer calls
TXXXX     == <<"X", "X", "X", "X">>
TXX_XX    == <<"X", "X", " ", "X", "X">>
TIG_XXX   == <<"I", "G", "_", "X", "X", "X">>
TX        == <<"X">>
TYYYY_HMS == <<"Y", "Y", "Y", "Y", " ", "H", "H", "M", "M", "S", "S">>
TYYYY_XX  == <<"Y", "Y", "Y", "Y", "_", "X", "X">>
THMS_X    == <<"H", "H", "M", "M", "S", "S", "_", "X">>

\* constraint values
V10_12  == <<"1", "0", "-", "1", "2">>
V12_10  == <<"1", "2", "-", "1", "0">>
V0_1050 == <<"0", "0", "0", "0", "-", "1", "0", "5", "0">>
VA_1F   == <<"A", "-", "1", "F">>
V5      == <<"5">>
V1_2_3  == <<"1", "-", "2", "-", "3">>
Vzz_10  == <<"z", "z", "-", "1", "0">>
V2012   == <<"2", "0", "1", "2">>
V2013   == <<"2", "0", "1", "3">>
VDay    == <<"0", "0", "0", "0", "0", "0", "-", "2", "3", "5", "9", "5", "9">>

(***************************************************************************)
(* Calls of the renderer.                                                  *)
(***************************************************************************)
Templates ==
    { tYMD_sp, tYMD, tYM_sp, tMonthDY, tYYYY, tHMS, tNone,
      TXXXX, TXX_XX, TIG_XXX, TX, TYYYY_HMS, TYYYY_XX, THMS_X }

Constraint(type, value) == [type |-> type, value |-> value]

ConstraintSets ==
    { <<>>,
      <<Constraint("range", V10_12)>>,
      <<Constraint("range", V12_10)>>,
      <<Constraint("range", V0_1050)>>,
      <<Constraint("range", VA_1F)>>,
      <<Constraint("range", V5)>>,
      <<Constraint("range", V1_2_3)>>,
      <<Constraint("range", Vzz_10)>>,
      <<Constraint("year", V2012), Constraint("year", V2013)>>,
      <<Constraint("time-range", VDay)>> }

RenderPatterns ==
    { [Pattern(<<"T">>, <<>>, "Misc", age) EXCEPT !.constraints = cs] :
        age \in {"", "new", "old"}, cs \in ConstraintSets }

OverrideValues == { <<>>, <<"v">> }

\* the values of Math.random() a call may use: the calendar and clock
\* locals that are not drawn get 0
CalendarRandoms(specifier, pattern, overrideDate) ==
    LET branch == Branch(specifier)
        fixed  == overrideDate # NoOverride
                    \/ (branch \in CalendarBranches /\ pattern.age = "new")
                    \/ branch = "none"
        one    == branch = "YYYY"
                    \/ (branch = "HHMMSS"
                          /\ FindConstraint(pattern, {"range", "time-range"}) # 0
                          /\ parseRangeConstraint(
                               pattern.constraints[FindConstraint(pattern,
                                   {"range", "time-range"})].value).ok)
        two    == branch = "YYYY MM"
    IN IF fixed THEN {<<0, 0, 0>>}
       ELSE IF one THEN {<<a, 0, 0>> : a \in RandNum}
       ELSE IF two THEN {<<a, b, 0>> : a, b \in RandNum}
       ELSE {<<a, b, c>> : a, b, c \in RandNum}

RunRandoms(specifier) == [1..NumDraws(specifier, 4) -> RandNum]

(***************************************************************************)
(* The settings object (class SearchSettings) and the generation of a      *)
(* search term from the catalog (generateRandomSearchTerm).                *)
(***************************************************************************)
\* a pattern of search-terms.json as generateRandomSearchTerm reads it
CatalogPattern(name, specifier, genre, age, constraints) ==
    [name |-> name, specifier |-> specifier, genre |-> genre, age |-> age,
     constraints |-> constraints]

V2020 == <<"2", "0", "2", "0">>

SetA  == CatalogPattern(<<"A">>, tYYYY, "Cam", "new", <<>>)
SetAB == CatalogPattern(<<"A", "B">>, tNone, "Cam", "", <<>>)
SetC  == CatalogPattern(<<" ", "C">>, Undefined, "VHS", "old", <<>>)
SetD  == CatalogPattern(<<"D", " ">>, tYYYY, "VHS", "old",
                        <<Constraint("date-before", V2020)>>)

\* data.patterns
allPatterns == <<SetA, SetAB, SetC, SetD>>

\* the arguments the callers pass to the methods of the settings object
GenreArgs == {allPatterns[i].genre : i \in 1..Len(allPatterns)}
NameArgs  == {allPatterns[i].name : i \in 1..Len(allPatterns)}
OverrideDates == {NoOverride, [day |-> DaysFromCivil(2012, 5, 5), tod |-> 0]}

\* searchTerm.startsWith(prefix)
StartsWith(text, prefix) ==
    Len(prefix) <= Len(text) /\ SubSeq(text, 1, Len(prefix)) = prefix

\* a filter option that is not set (undefined) is held as ""
NoFilters == [age |-> "", genre |-> "", hasConstraints |-> "undefined"]

\* meetsDateConstraints(pattern, date)
meetsDateConstraints(pattern, date, now) ==
    LET k == FindConstraint(pattern, {"date-before", "date-after"})
        checkYear == getFullYear(IF date # NoOverride THEN date ELSE now)
        constraintYear == parseInt(pattern.constraints[k].value, 10)
    IN IF k = 0 THEN TRUE
       ELSE IF constraintYear = NaN THEN FALSE
       ELSE IF pattern.constraints[k].type = "date-before"
       THEN checkYear >= constraintYear
       ELSE checkYear <= constraintYear

\* filterPatterns(patterns, filters, overrideDate)
filterPatterns(patterns, filters, overrideDate, now) ==
    LET byAge == IF filters.age # ""
                 THEN SelectSeq(patterns, LAMBDA p : p.age = filters.age \/ p.age = "")
                 ELSE patterns
        byGenre == IF filters.genre # ""
                   THEN SelectSeq(byAge, LAMBDA p : p.genre = filters.genre)
                   ELSE byAge
        byConstraints ==
            IF filters.hasConstraints # "undefined"
            THEN SelectSeq(byGenre, LAMBDA p :
                    IF filters.hasConstraints = "true" THEN Len(p.constraints) > 0
                    ELSE Len(p.constraints) = 0)
            ELSE byGenre
    IN SelectSeq(byConstraints, LAMBDA p : meetsDateConstraints(p, overrideDate, now))

\* pattern.specifier as the renderer tests it: undefined renders like ''
SpecifierOf(pattern) ==
    IF pattern.specifier = Undefined THEN <<>> ELSE pattern.specifier

\* the search terms generateRandomSearchTerm may build from a pattern:
\* (name + specifierValue).trim()
SearchTermsOf(pattern, overrideDate, now) ==
    { trim(pattern.name \o
           generateSpecifierValue(SpecifierOf(pattern), pattern, <<>>, overrideDate,
                                  now, r, rs).result) :
        r \in CalendarRandoms(SpecifierOf(pattern), pattern, overrideDate),
        rs \in RunRandoms(SpecifierOf(pattern)) }

\* what one call of generateRandomSearchTerm may return: the term and the
\* pattern it was built from; the empty set when the call throws
generateRandomSearchTerm(filters, overrideDate, now) ==
    LET filtered == filterPatterns(allPatterns, filters, overrideDate, now)
    IN UNION { {[searchTerm |-> term, pattern |-> getRandomElement(num, filtered)] :
                   term \in SearchTermsOf(getRandomElement(num, filtered),
                                          overrideDate, now)} :
               num \in IF Len(filtered) = 0 THEN {} ELSE RandNum }

\* getPatternInfoForTerm(searchTerm): the first pattern with the longest
\* name the term starts with, and patternInfo?.age || ''
BestMatch(searchTerm) ==
    LET hits == {i \in 1..Len(allPatterns) : StartsWith(searchTerm, allPatterns[i].name)}
        best == CHOOSE i \in hits :
                   \A j \in hits :
                      \/ Len(allPatterns[j].name) < Len(allPatterns[i].name)
                      \/ (Len(allPatterns[j].name) = Len(allPatterns[i].name) /\ i <= j)
    IN IF hits = {} THEN 0 ELSE best

AgeOfTerm(searchTerm) ==
    IF BestMatch(searchTerm) = 0 THEN "" ELSE allPatterns[BestMatch(searchTerm)].age

\* nothing was returned yet; null was returned.  attempts is the value of
\* the local attempts when the call returned
NoGen   == [kind |-> "none", searchTerm |-> <<>>, age |-> "", pattern |-> SetA,
            attempts |-> 0]
NullGen == [NoGen EXCEPT !.kind = "null"]

\* a method that changes the settings: the last result is forgotten
Settings(genres, ages, names, disabled, excluded) ==
    /\ enabledGenres' = genres
    /\ enabledAges' = ages
    /\ excludedPatternNames' = names
    /\ disabledByCall' = disabled
    /\ excludedByCall' = excluded
    /\ gen' = NoGen

enableGenre(genre) ==
    Settings(enabledGenres \cup {genre}, enabledAges, excludedPatternNames,
             disabledByCall \ {genre}, excludedByCall)

disableGenre(genre) ==
    Settings(enabledGenres \ {genre}, enabledAges, excludedPatternNames,
             disabledByCall \cup {genre}, excludedByCall)

settingsToggleGenre(genre) ==
    IF genre \in enabledGenres THEN disableGenre(genre) ELSE enableGenre(genre)

enableAllGenres ==
    Settings({}, enabledAges, excludedPatternNames, {}, excludedByCall)

enableAge(age) ==
    Settings(enabledGenres, enabledAges \cup {age}, excludedPatternNames,
             disabledByCall, excludedByCall)

disableAge(age) ==
    Settings(enabledGenres, enabledAges \ {age}, excludedPatternNames,
             disabledByCall, excludedByCall)

toggleAge(age) ==
    IF age \in enabledAges THEN disableAge(age) ELSE enableAge(age)

excludePattern(patternName) ==
    Settings(enabledGenres, enabledAges, excludedPatternNames \cup {patternName},
             disabledByCall, excludedByCall \cup {patternName})

includePattern(patternName) ==
    Settings(enabledGenres, enabledAges, excludedPatternNames \ {patternName},
             disabledByCall, excludedByCall \ {patternName})

togglePattern(patternName) ==
    IF patternName \in excludedPatternNames THEN includePattern(patternName)
    ELSE excludePattern(patternName)

clearExclusions ==
    Settings(enabledGenres, enabledAges, {}, disabledByCall, {})

resetToDefaults ==
    Settings({}, {"new", "old"}, {}, {}, {})

\* the filters generateSearchTermWithPattern may build: one of the enabled
\* genres is drawn, the age is set when exactly one age is enabled
FiltersOf(genres, ages) ==
    { [NoFilters EXCEPT !.genre = genre,
                        !.age = IF Cardinality(ages) = 1
                                THEN CHOOSE age \in ages : TRUE ELSE ""] :
        genre \in IF Cardinality(genres) > 0 THEN genres ELSE {""} }

\* the for loop over excludedPatternNames
IsExcluded(searchTerm, names) ==
    \E excludedName \in names : StartsWith(searchTerm, excludedName)

maxAttempts == 50

\* a loop that tests the bound after the call: one attempt too many
RECURSIVE AttemptLoopLate(_, _, _)
AttemptLoopLate(attempts, draws, names) ==
    IF attempts > maxAttempts THEN {[NullGen EXCEPT !.attempts = attempts]}
    ELSE { [kind |-> "term", searchTerm |-> draw.searchTerm,
            age |-> AgeOfTerm(draw.searchTerm), pattern |-> draw.pattern,
            attempts |-> attempts] :
              draw \in {d \in draws : ~IsExcluded(d.searchTerm, names)} }
         \cup (IF \E d \in draws : IsExcluded(d.searchTerm, names)
               THEN AttemptLoopLate(attempts + 1, draws, names) ELSE {})

\* the while loop: draws is what generateRandomSearchTerm may return
RECURSIVE AttemptLoop(_, _, _)
AttemptLoop(attempts, draws, names) ==
    IF attempts >= maxAttempts THEN {[NullGen EXCEPT !.attempts = attempts]}
    ELSE { [kind |-> "term", searchTerm |-> draw.searchTerm,
            age |-> AgeOfTerm(draw.searchTerm), pattern |-> draw.pattern,
            attempts |-> attempts] :
              draw \in {d \in draws : ~IsExcluded(d.searchTerm, names)} }
         \cup (IF \E d \in draws : IsExcluded(d.searchTerm, names)
               THEN AttemptLoop(attempts + 1, draws, names) ELSE {})

\* what generateSearchTermWithPattern(overrideDate) may return under the
\* settings; the exception of an empty filtered list is caught: null
generateSearchTermWithPattern(genres, ages, names, overrideDate, now) ==
    UNION { IF generateRandomSearchTerm(filters, overrideDate, now) = {}
            THEN {NullGen}
            ELSE AttemptLoop(0, generateRandomSearchTerm(filters, overrideDate, now),
                             names) :
            filters \in FiltersOf(genres, ages) }

\* gen is the value the call returns to its caller: one call at a time
generateSearchTerm(overrideDate) ==
    /\ gen = NoGen
    /\ gen' \in generateSearchTermWithPattern(enabledGenres, enabledAges,
                                              excludedPatternNames, overrideDate, Clock)
    /\ UNCHANGED <<enabledGenres, enabledAges, excludedPatternNames,
                   disabledByCall, excludedByCall>>

\* the caller has used the returned value (`result ? result.searchTerm : null`)
resultUsed ==
    /\ gen # NoGen
    /\ gen' = NoGen
    /\ UNCHANGED <<enabledGenres, enabledAges, excludedPatternNames,
                   disabledByCall, excludedByCall>>

SettingsNext ==
    \/ \E genre \in GenreArgs : enableGenre(genre)
    \/ \E genre \in GenreArgs : disableGenre(genre)
    \/ \E genre \in GenreArgs : settingsToggleGenre(genre)
    \/ enableAllGenres
    \/ \E age \in {"new", "old"} : enableAge(age)
    \/ \E age \in {"new", "old"} : disableAge(age)
    \/ \E age \in {"new", "old"} : toggleAge(age)
    \/ \E patternName \in NameArgs : excludePattern(patternName)
    \/ \E patternName \in NameArgs : includePattern(patternName)
    \/ \E patternName \in NameArgs : togglePattern(patternName)
    \/ clearExclusions
    \/ resetToDefaults
    \/ \E overrideDate \in OverrideDates : generateSearchTerm(overrideDate)
    \/ resultUsed

\* a settings object as constructed
SettingsParked ==
    /\ enabledGenres = {}
    /\ enabledAges = {"new", "old"}
    /\ excludedPatternNames = {}
    /\ gen = NoGen
    /\ disabledByCall = {}
    /\ excludedByCall = {}

(***************************************************************************)
(* The search sink: openYouTubeSearch and formatSearchTermToURL.           *)
(***************************************************************************)
\* the characters of the texts that encodeURIComponent escapes, with the
\* two hexadecimal digits of their code; letters and digits are kept
Escapes ==
    << <<" ", "2", "0">>, <<"&", "2", "6">>, <<"%", "2", "5">>, <<"+", "2", "B">>,
       <<"/", "2", "F">>, <<":", "3", "A">>, <<"=", "3", "D">>, <<"?", "3", "F">>,
       <<"#", "2", "3">> >>

\* the characters encodeURI keeps although encodeURIComponent escapes them
UriReserved == {"&", "+", "/", ":", "=", "?", "#"}

\* encodeURI(text)
encodeURI(text) ==
    LET Enc(c) ==
            IF c \notin UriReserved /\ \E i \in 1..Len(Escapes) : Escapes[i][1] = c
            THEN <<"%">> \o Tail(Escapes[CHOOSE i \in 1..Len(Escapes) : Escapes[i][1] = c])
            ELSE <<c>>
        Chars[k \in 0..Len(text)] == IF k = 0 THEN <<>> ELSE Chars[k - 1] \o Enc(text[k])
    IN Chars[Len(text)]

\* encodeURIComponent(text)
encodeURIComponent(text) ==
    LET Enc(c) ==
            IF \E i \in 1..Len(Escapes) : Escapes[i][1] = c
            THEN <<"%">> \o Tail(Escapes[CHOOSE i \in 1..Len(Escapes) : Escapes[i][1] = c])
            ELSE <<c>>
        Chars[k \in 0..Len(text)] == IF k = 0 THEN <<>> ELSE Chars[k - 1] \o Enc(text[k])
    IN Chars[Len(text)]

\* `https://www.youtube.com/results?search_query=`
SearchBase ==
    <<"h", "t", "t", "p", "s", ":", "/", "/", "w", "w", "w", ".", "y", "o",
      "u", "t", "u", "b", "e", ".", "c", "o", "m", "/", "r", "e", "s", "u",
      "l", "t", "s", "?", "s", "e", "a", "r", "c", "h", "_", "q", "u", "e",
      "r", "y", "=">>

\* '&sp=CAI%253D'
SortParam == <<"&", "s", "p", "=", "C", "A", "I", "%", "2", "5", "3", "D">>

\* ` before:${year}/${month}/${day}` without its leading blank
BeforeToken(date) ==
    <<"b", "e", "f", "o", "r", "e", ":">> \o NumToStr(getFullYear(date)) \o <<"/">>
        \o Pad2(getMonth1(date)) \o <<"/">> \o Pad2(getDate(date))

\* searchQuery of openYouTubeSearch(searchTerm)
SearchQuery(searchTerm, advanced, enable, date, tz) ==
    IF advanced /\ enable /\ date # NoDate
    THEN searchTerm \o <<" ">> \o BeforeToken(NewDateFromString(date, tz))
    ELSE searchTerm

\* youtubeSearchURL of openYouTubeSearch(searchTerm)
YoutubeSearchURL(searchTerm, advanced, enable, date, tz) ==
    SearchBase \o encodeURIComponent(SearchQuery(searchTerm, advanced, enable, date, tz))
        \o SortParam

\* nothing was opened yet
NotOpened == [by |-> "none", searchTerm |-> <<>>, url |-> <<>>]

\* openYouTubeSearch(searchTerm): window.open(youtubeSearchURL, '_blank')
openYouTubeSearch(searchTerm) ==
    /\ opened' = [by |-> "openYouTubeSearch", searchTerm |-> searchTerm,
                  url |-> YoutubeSearchURL(searchTerm, showAdvancedSettings,
                                           enableDateOverride, beforeDate, zone)]
    /\ UNCHANGED <<pageVars, showAdvancedSettings>>

\* formatSearchTermToURL(pattern, overrideDate): not implemented, returns ''
formatSearchTermToURL(pattern, overrideDate) == <<>>

\* Find Videos of the page on a selected pattern:
\* window.open(formatSearchTermToURL(...), '_blank')
openFormattedURL(pattern) ==
    /\ opened' = [by |-> "formatSearchTermToURL", searchTerm |-> pattern.name,
                  url |-> formatSearchTermToURL(pattern, NoOverride)]
    /\ UNCHANGED <<pageVars, showAdvancedSettings>>

\* opened is what the latest handler call opened: nothing, for every
\* handler but the search
Unopened == opened' = NotOpened /\ UNCHANGED showAdvancedSettings

\* the "advanced settings" checkbox (bind:checked)
setShowAdvancedSettings(checked) ==
    /\ showAdvancedSettings' = checked
    /\ opened' = NotOpened
    /\ UNCHANGED pageVars

\* the search terms handed to openYouTubeSearch
SearchTerms ==
    { <<"A", "2", "0", "2", "4">>, <<"D", " ", "2", "0", "1", "2">>,
      <<"C", "&", "D">>, <<"5", "0", "%">>, <<"a", "+", "b", "=", "c", "?">> }

UrlNext ==
    \/ \E searchTerm \in SearchTerms : openYouTubeSearch(searchTerm)
    \/ \E i \in 1..Len(allPatterns) : openFormattedURL(allPatterns[i])
    \/ \E checked \in BOOLEAN : setShowAdvancedSettings(checked)
    \/ \E checked \in BOOLEAN : setDateOverride(checked) /\ Unopened
    \/ \E value \in DateInputs : setBeforeDate(value) /\ Unopened

\* the sink is not used
UrlParked ==
    /\ showAdvancedSettings = FALSE
    /\ opened = NotOpened

(***************************************************************************)
(* The genre and name selections over a pool with custom terms.            *)
(***************************************************************************)
\* $: selectAllGenres = allGenres.length > 0 && selectedGenres.size === allGenres.length
selectAllGenres ==
    Cardinality(allGenres) > 0 /\ Cardinality(selectedGenres) = Cardinality(allGenres)

\* terms saved through the form in an earlier visit
SavedU == developSearchTerm(<<"U">>, << <<"X">> >>, "Custom", "new", << <<>>, <<>> >>)
SavedV == developSearchTerm(<<"V">>, << <<"X">> >>, "G", "", << <<>>, <<>> >>)

\* the lists localStorage may hold when the page is loaded
StoredLists == { <<SavedU>>, <<SavedU, SavedV>> }

SelectNext ==
    \/ \E genre \in allGenres : toggleGenre(genre) /\ UNCHANGED storeVars
    \/ toggleSelectAll /\ UNCHANGED storeVars
    \/ \E displayKey \in availableNames : toggleName(displayKey) /\ UNCHANGED storeVars
    \/ toggleSelectAllNames /\ UNCHANGED storeVars
    \/ \E checked \in BOOLEAN : setEnableUserTerms(checked)

(***************************************************************************)
(* The specifications: a call of the renderer, the page, the custom terms  *)
(* and the settings object.                                                *)
(***************************************************************************)
\* the pool and the filter are not used by a call of the renderer
PageParked ==
    /\ allSearchTerms = <<>>
    /\ selectedGenres = {}
    /\ genresInitialized = FALSE
    /\ selectedNames = {}
    /\ namesInitialized = FALSE
    /\ selectedAge = "any"
    /\ found = Idle
    /\ nsfwSelected = FALSE
    /\ StoreParked
    /\ SettingsParked
    /\ UrlParked

\* no call of the renderer is modelled
RenderParked ==
    /\ rSpecifier = <<>>
    /\ rPattern = PatD
    /\ rOverrideValue = <<>>
    /\ rOverrideDate = NoOverride
    /\ rOut = RenderBlank
    /\ rpc = "idle"

\* the caller passes the date Find Videos made of the override date when
\* one is supplied, and no date otherwise
RenderInit ==
    /\ PageParked
    /\ enableDateOverride \in BOOLEAN
    /\ beforeDate \in DateInputs
    /\ zone \in Zones
    /\ rSpecifier \in Templates
    /\ rPattern \in RenderPatterns
    /\ rOverrideValue \in OverrideValues
    /\ rOverrideDate \in IF OverrideSupplied(enableDateOverride, beforeDate)
                         THEN FormattedDates(rPattern) ELSE {NoOverride}
    /\ rOut = RenderBlank
    /\ rpc = "call"

Render ==
    /\ rpc = "call"
    /\ \E out \in {generateSpecifierValue(rSpecifier, rPattern, rOverrideValue,
                                          rOverrideDate, Clock, r, rs) :
                     r \in CalendarRandoms(rSpecifier, rPattern, rOverrideDate),
                     rs \in RunRandoms(rSpecifier)} :
          rOut' = out
    /\ rpc' = "done"
    /\ UNCHANGED <<pageVars, storeVars, settingsVars, urlVars>>
    /\ UNCHANGED <<rSpecifier, rPattern, rOverrideValue, rOverrideDate>>

RenderNext == Render

RenderSpec == RenderInit /\ [][RenderNext]_vars


\* the page as loaded: the start-up values after the first reactive run
PageInit ==
    /\ allSearchTerms \in Catalogs
    /\ selectedGenres = FlushGenres(allSearchTerms, {}, FALSE)
    /\ genresInitialized = FlushGenresInit(allSearchTerms, FALSE)
    /\ selectedNames = FlushNames(allSearchTerms, selectedGenres, {}, FALSE)
    /\ namesInitialized = FlushNamesInit(allSearchTerms, selectedGenres, FALSE)
    /\ selectedAge = "any"
    /\ enableDateOverride = FALSE
    /\ beforeDate = CivilFromDays(Clock.day)
    /\ zone \in Zones
    /\ found = Idle
    /\ nsfwSelected = FALSE
    /\ RenderParked
    /\ StoreParked
    /\ SettingsParked
    /\ UrlParked

PageSpec ==
    PageInit /\ [][PageNext /\ UNCHANGED <<renderVars, storeVars, settingsVars, urlVars>>]_vars

\* the page as loaded, with an empty localStorage
StoreInit ==
    /\ allSearchTerms = <<PatA, PatC>>
    /\ selectedGenres = FlushGenres(allSearchTerms, {}, FALSE)
    /\ genresInitialized = FlushGenresInit(allSearchTerms, FALSE)
    /\ selectedNames = FlushNames(allSearchTerms, selectedGenres, {}, FALSE)
    /\ namesInitialized = FlushNamesInit(allSearchTerms, selectedGenres, FALSE)
    /\ selectedAge = "any"
    /\ enableDateOverride = FALSE
    /\ beforeDate = CivilFromDays(Clock.day)
    /\ zone = 9
    /\ found = Idle
    /\ nsfwSelected = FALSE
    /\ RenderParked
    /\ StoreParked
    /\ SettingsParked
    /\ UrlParked

StoreSpec ==
    StoreInit /\ [][StoreNext /\ UNCHANGED <<renderVars, settingsVars, urlVars>>]_vars

\* a settings object as constructed; the page is not used
SettingsInit ==
    /\ PageParked
    /\ enableDateOverride = FALSE
    /\ beforeDate = NoDate
    /\ zone = 9
    /\ RenderParked

SettingsSpec ==
    SettingsInit
    /\ [][SettingsNext /\ UNCHANGED <<pageVars, renderVars, storeVars, urlVars>>]_vars

\* the page before a search; the pool and its filter are not used
UrlInit ==
    /\ allSearchTerms = <<>>
    /\ selectedGenres = {}
    /\ genresInitialized = FALSE
    /\ selectedNames = {}
    /\ namesInitialized = FALSE
    /\ selectedAge = "any"
    /\ found = Idle
    /\ nsfwSelected = FALSE
    /\ enableDateOverride = FALSE
    /\ beforeDate = CivilFromDays(Clock.day)
    /\ zone \in Zones
    /\ showAdvancedSettings = FALSE
    /\ opened = NotOpened
    /\ RenderParked
    /\ StoreParked
    /\ SettingsParked

UrlSpec ==
    UrlInit /\ [][UrlNext /\ UNCHANGED <<renderVars, storeVars, settingsVars>>]_vars

\* the page as loaded, with custom terms stored in an earlier visit
SelectInit ==
    /\ allSearchTerms = <<PatA, PatC>>
    /\ selectedGenres = FlushGenres(allSearchTerms, {}, FALSE)
    /\ genresInitialized = FlushGenresInit(allSearchTerms, FALSE)
    /\ selectedNames = FlushNames(allSearchTerms, selectedGenres, {}, FALSE)
    /\ namesInitialized = FlushNamesInit(allSearchTerms, selectedGenres, FALSE)
    /\ selectedAge = "any"
    /\ enableDateOverride = FALSE
    /\ beforeDate = CivilFromDays(Clock.day)
    /\ zone = 9
    /\ found = Idle
    /\ nsfwSelected = FALSE
    /\ customSearchTerms \in StoredLists
    /\ enableUserTerms = FALSE
    /\ selectedFile = NoFile
    /\ importStats = NoStats
    /\ done = Did("none", "none")
    /\ RenderParked
    /\ SettingsParked
    /\ UrlParked

SelectSpec ==
    SelectInit /\ [][SelectNext /\ UNCHANGED <<renderVars, settingsVars, urlVars>>]_vars


(***************************************************************************)
(* Properties of the renderer.                                             *)
(***************************************************************************)
\* a call returned the rendering of its template
Rendered == rpc = "done" /\ rOverrideValue = <<>>

\* the pattern carries a range constraint that parses into two numbers
ParseableRange(pattern) ==
    /\ RunRange(pattern).ok
    /\ RunRange(pattern).min # NaN
    /\ RunRange(pattern).max # NaN

\* C7 as stated: with a parseable range constraint [min,max] every numeric
\* run of the template is replaced, each by a drawn integer v with
\* min <= v <= max
C7_RangeRunsOriginal ==
    (Rendered /\ ParseableRange(rPattern)) =>
        /\ ~Includes(rOut.result, <<"X">>)
        /\ Len(rOut.draws) = NumDraws(rSpecifier, 4)
        /\ \A i \in 1..Len(rOut.draws) :
              /\ RunRange(rPattern).min <= rOut.draws[i]
              /\ rOut.draws[i] <= RunRange(rPattern).max

\* C7 amended: with a parseable range constraint every numeric run of the
\* template is replaced, each by a drawn integer v with min <= v <= max when
\* min <= max, and with max < v <= min when the bounds are reversed
C7_RangeRuns ==
    (Rendered /\ ParseableRange(rPattern)) =>
        LET min == RunRange(rPattern).min
            max == RunRange(rPattern).max
        IN /\ ~Includes(rOut.result, <<"X">>)
           /\ Len(rOut.draws) = NumDraws(rSpecifier, 4)
           /\ \A i \in 1..Len(rOut.draws) :
                 IF min <= max
                 THEN min <= rOut.draws[i] /\ rOut.draws[i] <= max
                 ELSE max < rOut.draws[i] /\ rOut.draws[i] <= min

\* C7 witness: two runs of one template drew different values of [10,12]
C7_Witness ==
    /\ Rendered
    /\ rSpecifier = TXX_XX
    /\ RunRange(rPattern) = [ok |-> TRUE, min |-> 10, max |-> 12]
    /\ rOut.draws = <<10, 12>>

\* the placeholder tokens the renderer recognises
RecognizedTokens == {tYMD_sp, tYMD, tYM_sp, tMonthDY, tYYYY, tHMS, <<"X">>}

\* the literal characters used around the tokens of Templates
LiteralChars == {" ", ",", "_", "I", "G"}

Literals(text) == SelectSeq(text, LAMBDA c : c \in LiteralChars)

\* C8: the rendering of a template made of non-overlapping recognized tokens
\* contains no remaining placeholder token and keeps the literal text
C8_ResultGuarantee ==
    Rendered =>
        /\ \A token \in RecognizedTokens : ~Includes(rOut.result, token)
        /\ Literals(rOut.result) = Literals(rSpecifier)

\* the admissible years of the pattern's year constraints
YearSet(pattern) ==
    {parseInt(pattern.constraints[i].value, 10) :
        i \in {k \in 1..Len(pattern.constraints) : pattern.constraints[k].type = "year"}}

\* C9: without an override date, the year rendered for a pattern that
\* carries year constraints is a member of their admissible set
C9_YearConstraint ==
    (Rendered /\ rOverrideDate = NoOverride /\ YearSet(rPattern) # {}
        /\ rOut.year # Unset)
      => rOut.year \in YearSet(rPattern)

NoDateConstraints(pattern) ==
    /\ pattern.dateBefore = NoDate
    /\ pattern.dateAfter = NoDate
    /\ pattern.dateExact = NoDate
    /\ FindConstraint(pattern, {"date-before", "date-after", "date-exact"}) = 0

\* the days randomSpecDay may return for the pattern under the age modes
\* that keep it eligible
AnchorDays(pattern) ==
    {randomSpecDay(pattern, age, Clock, zone, r1, r2).day :
        age \in {"any", pattern.age}, r1 \in RandNum, r2 \in RandNum}

\* C11: for a pattern of age 'old' with no override date and no date
\* constraints, the date that anchors the before: qualifier is not later than
\* now and not more than 3650 days before now, and a rendered year lies
\* within the last 10 years (now's year - 10 .. now's year)
C11_OldAgeWindow ==
    (Rendered /\ rPattern.age = "old" /\ rOverrideDate = NoOverride
        /\ NoDateConstraints(rPattern)) =>
        /\ \A day \in AnchorDays(rPattern) :
              day <= Clock.day /\ Clock.day - day <= 3650
        /\ rOut.year # Unset =>
              /\ getFullYear(Clock) - 10 <= rOut.year
              /\ rOut.year <= getFullYear(Clock)

(***************************************************************************)
(* Properties of the custom terms.                                         *)
(***************************************************************************)
\* a step of one of the two imports
ImportStep == done'.op \in {"importSimple", "importMerge"} /\ selectedFile # NoFile

\* a record as the specification words it: it has a non-empty name or at
\* least one non-empty specifier
HasText(v) == v \notin {Undefined, Null} /\ trim(v) # <<>>

RecordValid(item) ==
    /\ item.kind = "object"
    /\ \/ HasText(item.term.name)
       \/ /\ item.term.specifiers # NoList
          /\ \E i \in 1..Len(item.term.specifiers) : HasText(item.term.specifiers[i])

\* the stored list holds the record, or the record it was merged into
Stored(terms, term) ==
    \E i \in 1..Len(terms) :
        /\ terms[i].name = term.name
        /\ terms[i].age = term.age
        /\ terms[i].isCustom
        /\ Range(OrEmptyList(term.specifiers)) \subseteq Range(OrEmptyList(terms[i].specifiers))

\* C12: an import of a JSON array classifies each item on its own: success
\* counts the valid items, failed the others (null and non-object items
\* included), the two add up to the length of the array, and every valid
\* item of the array is stored
C12_PerRecordValidation ==
    [][(ImportStep /\ selectedFile.kind = "array") =>
          LET items == selectedFile.items
              valid == {i \in 1..Len(items) : RecordValid(items[i])}
          IN /\ importStats'.success = Cardinality(valid)
             /\ importStats'.failed = Len(items) - Cardinality(valid)
             /\ \A i \in valid : Stored(customSearchTerms', items[i].term)
      ]_vars

\* C13: an import of a file that is not JSON, or whose JSON value is not an
\* array, shows one failure alert and leaves the stored terms and the pool
\* as they were
C13_MalformedPayload ==
    [][(ImportStep /\ selectedFile.kind \in {"text", "value"}) =>
          /\ done'.alert = IF selectedFile.kind = "text" THEN "invalid JSON"
                           ELSE "invalid format"
          /\ UNCHANGED <<customSearchTerms, allSearchTerms, importStats>>
      ]_vars

\* C13 witness: a merge import of a non-array file ran while custom terms
\* were stored and loaded into the pool
C13_Witness ==
    /\ done.op = "importMerge"
    /\ done.alert = "invalid format"
    /\ selectedFile = ValueFile
    /\ Len(customSearchTerms) > 0
    /\ enableUserTerms
    /\ \E i \in 1..Len(allSearchTerms) : allSearchTerms[i].isCustom

\* list is the duplicate-free union of the lists first and second, the
\* members of first coming before the others
UnionFirst(list, first, second) ==
    /\ \A i, j \in 1..Len(list) : list[i] = list[j] => i = j
    /\ Range(list) = Range(first) \cup Range(second)
    /\ \A i, j \in 1..Len(list) :
          (i < j /\ list[i] \notin Range(first)) => list[j] \notin Range(first)

\* component k of a constraint, <<>> when the constraint or the component
\* is absent
Component(constraint, k) ==
    IF constraint = NoList \/ k > Len(constraint) \/ ~Truthy(constraint[k])
    THEN <<>> ELSE constraint[k]

\* merged is what the specification makes of a stored term and an incoming
\* one with the same name and age
MergedAsSpecified(merged, stored, incoming) ==
    /\ merged.name = stored.name
    /\ merged.age = stored.age
    /\ UnionFirst(merged.specifiers, OrEmptyList(stored.specifiers),
                  OrEmptyList(incoming.specifiers))
    /\ merged.genre = IF incoming.genre \notin {"", UndefStr}
                      THEN incoming.genre ELSE stored.genre
    /\ \A k \in 1..2 :
          Component(merged.constraint, k) =
             IF Component(incoming.constraint, k) # <<>>
             THEN Component(incoming.constraint, k)
             ELSE Component(stored.constraint, k)

\* after is what the specification makes of the list before and one valid
\* incoming term
MergeAsSpecified(before, incoming, after) ==
    LET same == {i \in 1..Len(before) :
                    before[i].name = incoming.name /\ before[i].age = incoming.age}
    IN IF same # {}
       THEN /\ Len(after) = Len(before)
            /\ \E i \in same :
                  /\ MergedAsSpecified(after[i], before[i], incoming)
                  /\ \A j \in 1..Len(before) : j # i => after[j] = before[j]
       ELSE /\ Len(after) = Len(before) + 1
            /\ SubSeq(after, 1, Len(before)) = before
            /\ after[Len(after)] = [incoming EXCEPT !.isCustom = TRUE]

\* the stored list after the first n valid items of the file were merged
MergedPrefix(n) ==
    MergeEach(customSearchTerms, SubSeq(ValidItems(selectedFile.items), 1, n))

C15_RoundTrip ==
    Len(customSearchTerms) > 0 =>
        LET result == importSimpleResult(ExportedFile(customSearchTerms),
                                         customSearchTerms, importStats)
        IN /\ result.alert = "import complete"
           /\ result.terms = customSearchTerms
           /\ \A i \in 1..Len(result.terms) : result.terms[i].isCustom

\* C15 witness: the exported file of a list of two terms, one of them
\* without a name, was imported in replace mode and the list is that of the
\* file
C15_Witness ==
    /\ done.op = "importSimple"
    /\ done.alert = "import complete"
    /\ Len(customSearchTerms) = 2
    /\ selectedFile = ExportedFile(customSearchTerms)
    /\ \E i \in 1..2 : customSearchTerms[i].name = Undefined

(***************************************************************************)
(* Properties of the settings object.                                      *)
(***************************************************************************)
CatalogPatterns == Range(allPatterns)

\* the pattern matches the settings as the specification words them: its
\* genre is enabled (no enabled genre: every genre is), it passes the age
\* filter, its name is not excluded
GenreEnabled(pattern) == enabledGenres = {} \/ pattern.genre \in enabledGenres

PassesAgeFilter(pattern) ==
    \/ enabledAges = {"new", "old"}
    \/ \E age \in enabledAges : pattern.age \in {age, ""}

Matches(pattern) ==
    /\ GenreEnabled(pattern)
    /\ PassesAgeFilter(pattern)
    /\ pattern.name \notin excludedPatternNames

\* C16: generateSearchTerm returns null only if no catalog pattern matches
\* the settings: when it returned null, no pattern has an enabled genre,
\* passes the age filter and is not excluded
C16_NullOnlyWithoutMatch ==
    gen.kind = "null" => ~\E pattern \in CatalogPatterns : Matches(pattern)

\* the pattern may be returned by a call under the exclusion set names
Generable(pattern, names) ==
    \E overrideDate \in OverrideDates :
        \E result \in generateSearchTermWithPattern(enabledGenres, enabledAges, names,
                                                    overrideDate, Clock) :
            result.kind = "term" /\ result.pattern = pattern

\* C17: while a name is excluded (excludePattern was called and neither
\* includePattern, clearExclusions nor resetToDefaults since), no returned
\* term was built from a pattern of that name, and every pattern of another
\* name that could be returned without the exclusions still can
C17_PatternExclusion ==
    /\ gen.kind = "term" => gen.pattern.name \notin excludedByCall
    /\ \A pattern \in CatalogPatterns :
          (pattern.name \notin excludedByCall /\ Generable(pattern, {}))
             => Generable(pattern, excludedPatternNames)

\* C18: while a genre is disabled (disableGenre was called and neither
\* enableGenre of it, enableAllGenres nor resetToDefaults since), no returned
\* term was built from a pattern of that genre
C18_GenreDisabling ==
    gen.kind = "term" => gen.pattern.genre \notin disabledByCall


(***************************************************************************)
(* Properties of the numeric runs.                                         *)
(***************************************************************************)
\* the value of the pattern's range constraint, <<>> when it has none
RangeValue(pattern) ==
    LET k == FindConstraint(pattern, {"range"})
    IN IF k = 0 THEN <<>> ELSE pattern.constraints[k].value

\* the range value does not split into exactly two parts, or one of its
\* parts is not a number of its base
MalformedRange(pattern) ==
    LET value == RangeValue(pattern)
        parts == Split(value)
        base  == IF HasHexLetter(value) THEN 16 ELSE 10
    IN /\ FindConstraint(pattern, {"range"}) # 0
       /\ \/ Len(parts) # 2
          \/ \E i \in 1..Len(parts) : parseInt(parts[i], base) = NaN

\* the lengths of the numeric runs of a text in the order the loops resolve
\* them: the runs of four first, then three, two, one
RECURSIVE RunWidths(_, _)
RunWidths(result, digits) ==
    IF digits = 0 THEN <<>>
    ELSE IF Includes(result, XPattern(digits))
    THEN <<digits>> \o RunWidths(ReplaceFirst(result, XPattern(digits),
                                              [i \in 1..digits |-> "0"]), digits)
    ELSE RunWidths(result, digits - 1)

\* the template holds numeric runs and literal text only
RunsOnly(specifier) ==
    /\ Includes(specifier, <<"X">>)
    /\ Branch(specifier) \notin CalendarBranches \cup {"HHMMSS"}

\* every run of the template became decimal digits of the run's own width
\* and the literal text stayed where it was
WidthKept(specifier, result) ==
    /\ Len(result) = Len(specifier)
    /\ \A i \in 1..Len(specifier) :
          IF specifier[i] = "X" THEN result[i] \in DigitChars
          ELSE result[i] = specifier[i]

\* C19: a range value that does not split into exactly two parts, or whose
\* parts are not numeric, yields no constraint: every numeric run is drawn
\* from its default range [0, 10^n - 1] and rendered as n decimal digits,
\* never as a non-numeric string
C19_MalformedRange ==
    (Rendered /\ MalformedRange(rPattern) /\ RunsOnly(rSpecifier)) =>
        /\ ~RunRange(rPattern).ok
        /\ Len(rOut.draws) = Len(RunWidths(rSpecifier, 4))
        /\ \A i \in 1..Len(rOut.draws) :
              /\ 0 <= rOut.draws[i]
              /\ rOut.draws[i] <= Pow10(RunWidths(rSpecifier, 4)[i]) - 1
        /\ WidthKept(rSpecifier, rOut.result)

\* C20: each run of n placeholder characters (1 <= n <= 4) is replaced by
\* exactly n decimal digits, zero-padded on the left, with or without a
\* range constraint, and a run of four is resolved by one draw
C20_RunWidth ==
    (Rendered /\ RunsOnly(rSpecifier)) =>
        /\ WidthKept(rSpecifier, rOut.result)
        /\ (rSpecifier = TXXXX => Len(rOut.draws) = 1)

(***************************************************************************)
(* Properties of the search text.                                          *)
(***************************************************************************)
\* C21: a pattern with no specifier, or with the empty string as specifier,
\* renders to exactly its name: no character is added or removed
C21_EmptySpecifier ==
    (gen.kind = "term" /\ SpecifierOf(gen.pattern) = <<>>) =>
        gen.searchTerm = gen.pattern.name

\* the texts the specifier of a pattern may render to
RenderedSpecifiers(pattern) ==
    UNION { { generateSpecifierValue(SpecifierOf(pattern), pattern, <<>>, overrideDate,
                                     Clock, r, rs).result :
                r \in CalendarRandoms(SpecifierOf(pattern), pattern, overrideDate),
                rs \in RunRandoms(SpecifierOf(pattern)) } :
            overrideDate \in OverrideDates }

\* C22: for a pattern with a non-empty name and a non-empty specifier the
\* search text is the name, a single space and the rendered specifier
C22_NameSpecifierJoining ==
    (gen.kind = "term" /\ Len(gen.pattern.name) > 0 /\ SpecifierOf(gen.pattern) # <<>>) =>
        \E value \in RenderedSpecifiers(gen.pattern) :
            gen.searchTerm = gen.pattern.name \o <<" ">> \o value

(***************************************************************************)
(* Properties of the produced URL.                                         *)
(***************************************************************************)
\* the value of the parameter search_query of a URL: the text between
\* 'search_query=' and the next '&'
QueryValue(url) ==
    LET key   == SubSeq(SearchBase, Len(SearchBase) - 12, Len(SearchBase))
        i     == IndexOf(url, key)
        rest  == SubSeq(url, i + Len(key), Len(url))
        j     == IndexOf(rest, <<"&">>)
    IN IF i = 0 THEN <<>>
       ELSE IF j = 0 THEN rest
       ELSE SubSeq(rest, 1, j - 1)

\* the percent-decoding of a parameter value
RECURSIVE PercentDecode(_)
PercentDecode(text) ==
    IF Len(text) = 0 THEN <<>>
    ELSE IF text[1] = "%" /\ Len(text) >= 3
            /\ \E i \in 1..Len(Escapes) : Tail(Escapes[i]) = SubSeq(text, 2, 3)
    THEN <<Escapes[CHOOSE i \in 1..Len(Escapes) :
                      Tail(Escapes[i]) = SubSeq(text, 2, 3)][1]>>
         \o PercentDecode(SubSeq(text, 4, Len(text)))
    ELSE <<text[1]>> \o PercentDecode(Tail(text))

\* the qualifier of the search: the before: token of the override date
\* when one is supplied in the advanced settings, else empty
Qualifier ==
    IF showAdvancedSettings /\ OverrideSupplied(enableDateOverride, beforeDate)
    THEN BeforeToken(NewDateFromString(beforeDate, zone))
    ELSE <<>>

\* C23: the search_query value of the produced URL decodes to the rendered
\* text alone when the qualifier is empty and to the text, exactly one
\* space and the qualifier token when it is not; the URL is never empty
C23_UrlAssembly ==
    opened.by # "none" =>
        /\ opened.url # <<>>
        /\ PercentDecode(QueryValue(opened.url)) =
              IF Qualifier = <<>> THEN opened.searchTerm
              ELSE opened.searchTerm \o <<" ">> \o Qualifier

(***************************************************************************)
(* Properties of the eligible set.                                         *)
(***************************************************************************)
\* the clock's year has reached every year constraint of the pattern
YearReached(pattern) ==
    \A i \in 1..Len(pattern.constraints) :
        pattern.constraints[i].type = "year" =>
            getFullYear(Clock) >= parseInt(pattern.constraints[i].value, 10)

\* C24: a pattern carrying a year constraint is eligible, and selected by
\* Find Videos, only if the clock's current year is greater than or equal
\* to the constraint's year
C24_TemporalPredicate ==
    /\ \A pattern \in ActivePatterns : YearReached(pattern)
    /\ found.kind = "opened" => YearReached(found.pattern)

(***************************************************************************)
(* Properties of the pool with custom terms.                               *)
(***************************************************************************)
\* the static catalog of the page and the user-created entries of the pool
StaticCatalog == <<PatA, PatC>>

PoolStatic == SelectSeq(allSearchTerms, LAMBDA term : ~term.isCustom)
PoolCustom == SelectSeq(allSearchTerms, LAMBDA term : term.isCustom)

SavedStep ==
    /\ done'.op = "saveSearchTerm"
    /\ done'.alert = "saved"
    /\ Len(customSearchTerms') = Len(customSearchTerms) + 1

\* the term the step stored, and the eligible set after the step
SavedTerm == customSearchTerms'[Len(customSearchTerms')]

ActiveAfter == ActiveOf(allSearchTerms', selectedGenres', selectedAge', selectedNames')

\* C26: after saveSearchTerm succeeds while custom terms are enabled, with
\* the genre, name and age filters as they were at start-up, the new term is
\* in the eligible set and the next Find Videos can draw it
C26_SavedTermJoinsPool ==
    [][(SavedStep /\ enableUserTerms) =>
          /\ SavedTerm \in Range(ActiveAfter)
          /\ \E r \in RandNum : RandomPattern(r, ActiveAfter) = SavedTerm]_vars

\* Find Videos opened a search on a date chosen by randomSpecDay
RandomDayChosen ==
    found.kind = "opened" /\ ~OverrideSupplied(enableDateOverride, beforeDate)

\* C27: with no override date the date chosen by randomSpecDay is never
\* later than the pattern's date-before bound, never earlier than its
\* date-after bound, and equal to its exact date
C27_DateBounds ==
    RandomDayChosen =>
        LET pattern == found.pattern
            chosen  == getTime(found.date, zone)
        IN /\ pattern.dateBefore # NoDate =>
                 chosen <= getTime(NewDateFromString(pattern.dateBefore, zone), zone)
           /\ pattern.dateAfter # NoDate =>
                 chosen >= getTime(NewDateFromString(pattern.dateAfter, zone), zone)
           /\ pattern.dateExact # NoDate =>
                 found.date = NewDateFromString(pattern.dateExact, zone)

\* C28: from the initial state, after any sequence of genre toggles, name
\* toggles and age changes in which the genre NSFW was never selected, no
\* pattern of genre NSFW is in the eligible set or returned by Find Videos
C28_NsfwOptIn ==
    ~nsfwSelected =>
        /\ \A pattern \in ActivePatterns : pattern.genre # "NSFW"
        /\ found.kind = "opened" => found.pattern.genre # "NSFW"

(***************************************************************************)
(* Properties of the selections.                                           *)
(***************************************************************************)
\* C29: after any sequence of genre toggles, Select-All clicks and enabling
\* or disabling the custom terms, the Select All flag of the genres is true
\* exactly when every listed genre is selected, only listed genres are
\* selected, and a Select-All click while some listed genre is unselected
\* selects all listed genres
C29_SelectAllConsistency ==
    [][/\ selectAllGenres <=> allGenres \subseteq selectedGenres
       /\ selectedGenres \subseteq allGenres
       /\ (toggleSelectAll /\ ~(allGenres \subseteq selectedGenres)) =>
             selectedGenres' = allGenres]_vars

(***************************************************************************)
(* Properties of the generation loop.                                      *)
(***************************************************************************)
\* a call of generateSearchTermWithPattern returned
Generated == gen'.kind # "none"

\* C30: generateSearchTermWithPattern returns after at most 50 generation
\* attempts, either a term that starts with no excluded pattern name or
\* null; it propagates no exception and changes neither the enabled genres,
\* the enabled ages nor the exclusion set
C30_BoundedGeneration ==
    [][Generated =>
          /\ gen'.kind \in {"term", "null"}
          /\ gen'.kind = "term" =>
                /\ gen'.attempts + 1 <= 50
                /\ ~IsExcluded(gen'.searchTerm, excludedPatternNames)
          /\ gen'.kind = "null" => gen'.attempts <= 50
          /\ UNCHANGED <<enabledGenres, enabledAges, excludedPatternNames>>]_vars

\* C30 witness: every one of the 50 attempts drew an excluded term and the
\* call returned null
C30_Witness ==
    /\ gen.kind = "null"
    /\ gen.attempts = 50
    /\ excludedPatternNames # {}

=============================================================================
